---- MODULE Spec2Model ----
(***************************************************************************)
(* A model of the DungeonGenJS generation pipeline (js/classes/Dungeon.js  *)
(* and the entity classes it constructs).                                  *)
(*                                                                         *)
(* A random number r = _seed / 233280 is represented by the integer _seed  *)
(* it is computed from, so that "r < 0.3" reads "10 * s < 3 * Modulus" and *)
(* "Math.floor(r * k)" reads "(s * k) \div Modulus"; the arithmetic is the *)
(* exact rational one.  Seeds are non-negative integers.                   *)
(*                                                                         *)
(* One aggregate is generated at a time.  When an aggregate has finished,  *)
(* its observable output can be recorded (variable prev) and a second,     *)
(* freshly constructed aggregate takes its place; this is how statements   *)
(* comparing two aggregates are expressed.                                 *)
(***************************************************************************)
EXTENDS Integers, Sequences, FiniteSets, TLC

VARIABLES
    width, height,      \* this.width, this.height
    seed,               \* this.seed
    rng,                \* this.rng._seed
    tiles,              \* this.tiles, a function from <<x, y>> to a tile
    rooms,              \* this.rooms
    corridors,          \* this.corridors
    chests,             \* this.chests
    creatures,          \* this.creatures
    doors,              \* this.doors
    playerStart,        \* this.playerStart
    stairs,             \* this.stairs
    nextId,             \* allocator of object identities (chests, creatures)
    keyLog,             \* results returned by placeKeyInAccessibleLocation
    pc,                 \* position inside generateDungeon
    calls,              \* generateDungeon calls made on this aggregate
    trace,              \* stages run by the current generateDungeon call
    returned,           \* value returned by the last generateDungeon call
    args,               \* the newSeed arguments of these calls, in order
    agg,                \* 1: first aggregate, 2: second aggregate
    prev,               \* output recorded from the first aggregate
    drawn               \* the last call of random(), randomInt() or
                        \* findAccessibleRooms() from outside

vars == <<width, height, seed, rng, tiles, rooms, corridors, chests, creatures,
          doors, playerStart, stairs, nextId, keyLog, pc, calls, trace,
          returned, args, agg, prev, drawn>>

----------------------------------------------------------------------------
(* Bounds of the model *)

\* seeds 0..MaxSeed may be passed to generateDungeon; an aggregate receives at
\* most MaxCalls calls
MaxSeed == 0
MaxCalls == 2

----------------------------------------------------------------------------
(* Program constants *)

MAX_BSP_DEPTH == 4
MIN_ROOM_WIDTH == 4
MIN_ROOM_HEIGHT == 4
MAX_ROOM_WIDTH == 15
MAX_ROOM_HEIGHT == 12
MAX_ROOMS == 15
borderSize == 1
Modulus == 233280
Multiplier == 9301
Increment == 49297

Null == -1

\* playerStart and stairs before they are set
NoPosition == <<>>

Min(a, b) == IF a < b THEN a ELSE b
Max(a, b) == IF a > b THEN a ELSE b
Abs(a) == IF a < 0 THEN -a ELSE a

----------------------------------------------------------------------------
(* createRNG: the linear congruential generator *)

\* (t * 9301 + 49297) modulo 233280 for t in 0..233279; the product is split
\* so that it stays inside 32-bit integers
Lcg(t) ==
    (((t * 9000) % Modulus) + ((t * (Multiplier - 9000)) % Modulus) + Increment) % Modulus

\* The remainder of JavaScript has the sign of the dividend: for v <= -6 the
\* sum v * 9301 + 49297 is negative, and so is its remainder unless it is 0.
Truncated(v, m) == IF v >= -(Increment \div Multiplier) \/ m = 0 THEN m ELSE m - Modulus

\* rng.random(): the new _seed; the number returned is Random(s) / Modulus
Random(s) == Truncated(s, Lcg(s % Modulus))

\* r < num / den
Lt(r, num, den) == r * den < num * Modulus

\* r > 0.5
GtHalf(r) == 2 * r > Modulus

\* Math.floor(r * k) for an integer k >= 0
FloorMul(r, k) == (r * k) \div Modulus

\* Math.floor(r * (k * num / den)), e.g. r * (maxWidth * 0.3)
FloorMulFrac(r, k, num, den) == (r * k * num) \div (Modulus * den)

\* the rng state after n further draws of a state s (n is halved, and s
\* is looked at first, to keep the evaluation shallow)
RECURSIVE Skip(_, _)
Skip(s, n) ==
    IF s \notin Int \/ n <= 0 THEN s
    ELSE IF n = 1 THEN Random(s)
    ELSE Skip(Skip(s, n \div 2), n - (n \div 2))

----------------------------------------------------------------------------
(* Tiles *)

NoItem == [kind |-> "none", a |-> 0, b |-> 0]

\* new Tile("wall", dungeon)
WallTile == [type |-> "wall", trap |-> FALSE, item |-> NoItem, creature |-> 0,
             locked |-> FALSE, trapped |-> FALSE, facing |-> "none", room |-> 0,
             debris |-> FALSE]

\* new Trap(dungeon): the rng state after the constructor's draws
\* (difficulty, type, and one more draw for an "arrow" trap)
TrapType(t) == IF FloorMul(t, 7) = 0 THEN Random(t) ELSE t

TrapRng(s) == TrapType(Random(Random(s)))

\* new Tile("floor", dungeon): Floor rolls trapped and builds its trap
TrappedFloor(r, isTrapped) ==
    [tile |-> [WallTile EXCEPT !.type = "floor", !.trap = isTrapped, !.trapped = isTrapped],
     rng |-> IF isTrapped THEN TrapRng(r) ELSE r]

FloorRoll(r) == TrappedFloor(r, Lt(r, 1, 10))

FloorTile(s) == FloorRoll(Random(s))

\* the positions of the grid
Positions(w, h) == (0..(w - 1)) \X (0..(h - 1))

\* a bounds test that admits the border ring
isInsideGrid(w, h, x, y) == x >= 0 /\ x < w /\ y >= 0 /\ y < h

isValidPosition(w, h, x, y) ==
    /\ x >= borderSize
    /\ x < w - borderSize
    /\ y >= borderSize
    /\ y < h - borderSize

\* this.tiles[x][y] = new Tile("floor", this) on the dungeon record D
SetFloor(D, x, y) ==
    LET Put(f) == [D EXCEPT !.tiles[<<x, y>>] = f.tile, !.rng = f.rng]
    IN Put(FloorTile(D.rng))

\* a carve without the guard, off by the border and one tile
CarveNorthWest(D, x, y) == SetFloor(D, x - borderSize - 1, y - borderSize - 1)

\* the guarded form used by every carving loop
CarveTile(D, x, y) ==
    IF isValidPosition(D.width, D.height, x, y) THEN SetFloor(D, x, y) ELSE D

----------------------------------------------------------------------------
(* Room *)

Room(x, y, w, h) == [x |-> x, y |-> y, width |-> w, height |-> h, connected |-> FALSE]

getCenter(room) == [x |-> room.x + (room.width \div 2), y |-> room.y + (room.height \div 2)]

getArea(room) == room.width * room.height

containsPoint(room, x, y) ==
    /\ x >= room.x
    /\ x < room.x + room.width
    /\ y >= room.y
    /\ y < room.y + room.height

isPartOfRoom(D, x, y) == \E i \in 1..Len(D.rooms) : containsPoint(D.rooms[i], x, y)

\* index (1-based) of the first room containing the point, 0 when there is none
getRoomForPosition(D, x, y) ==
    IF isPartOfRoom(D, x, y)
    THEN CHOOSE i \in 1..Len(D.rooms) :
            /\ containsPoint(D.rooms[i], x, y)
            /\ \A j \in 1..(i - 1) : ~containsPoint(D.rooms[j], x, y)
    ELSE 0

----------------------------------------------------------------------------
(* placeRooms *)

\* splitRecursively: acc is this.rooms (the leaves pushed so far)
RECURSIVE splitRecursively(_, _, _, _)
splitRecursively(room, depth, s, acc) ==
    IF \/ depth >= MAX_BSP_DEPTH
       \/ room.width <= MIN_ROOM_WIDTH * 2
       \/ room.height <= MIN_ROOM_HEIGHT * 2
    THEN [rooms |-> Append(acc, room), rng |-> s]
    ELSE
      LET r1 == Random(s)
          splitHorizontally ==
              IF 4 * room.width > 5 * room.height THEN FALSE
              ELSE IF 4 * room.height > 5 * room.width THEN TRUE
              ELSE GtHalf(r1)
      IN IF splitHorizontally
         THEN LET minY == room.y + MIN_ROOM_HEIGHT
                  maxY == room.y + room.height - MIN_ROOM_HEIGHT
              IN IF maxY - minY < 1
                 THEN [rooms |-> Append(acc, room), rng |-> r1]
                 ELSE LET r2 == Random(r1)
                          splitPosition == minY + FloorMul(r2, maxY - minY)
                          roomTop == Room(room.x, room.y, room.width, splitPosition - room.y)
                          roomBottom == Room(room.x, splitPosition, room.width,
                                             room.y + room.height - splitPosition)
                          top == splitRecursively(roomTop, depth + 1, r2, acc)
                      IN splitRecursively(roomBottom, depth + 1, top.rng, top.rooms)
         ELSE LET minX == room.x + MIN_ROOM_WIDTH
                  maxX == room.x + room.width - MIN_ROOM_WIDTH
              IN IF maxX - minX < 1
                 THEN [rooms |-> Append(acc, room), rng |-> r1]
                 ELSE LET r2 == Random(r1)
                          splitPosition == minX + FloorMul(r2, maxX - minX)
                          roomLeft == Room(room.x, room.y, splitPosition - room.x, room.height)
                          roomRight == Room(splitPosition, room.y,
                                            room.x + room.width - splitPosition, room.height)
                          left == splitRecursively(roomLeft, depth + 1, r2, acc)
                      IN splitRecursively(roomRight, depth + 1, left.rng, left.rooms)

\* [...bspLeaves].sort(() => this.random() - 0.5): the comparator ignores its
\* arguments and is negative when the draw is below 0.5.  The order produced
\* by such a comparator is the host engine's; this is the engine used by the
\* project's browser build (V8: one initial run, then binary insertion).
RECURSIVE CountRun(_, _, _, _, _)
CountRun(n, idx, isDescending, s, runLength) ==
    IF idx > n THEN [run |-> runLength, rng |-> s]
    ELSE LET r == Random(s)
             negative == 2 * r < Modulus
         IN IF isDescending = negative
            THEN CountRun(n, idx + 1, isDescending, r, runLength + 1)
            ELSE [run |-> runLength, rng |-> r]

Reverse(a) == [i \in 1..Len(a) |-> a[Len(a) + 1 - i]]

\* binary search of the insertion point in a[left+1 .. right] (0-based bounds)
RECURSIVE BinarySearch(_, _, _)
BinarySearch(left, right, s) ==
    IF left >= right THEN [left |-> left, rng |-> s]
    ELSE LET mid == left + ((right - left) \div 2)
             r == Random(s)
         IN IF 2 * r < Modulus
            THEN BinarySearch(left, mid, r)
            ELSE BinarySearch(mid + 1, right, r)

RECURSIVE BinaryInsertionSort(_, _, _)
BinaryInsertionSort(a, start, s) ==
    IF start >= Len(a) THEN [arr |-> a, rng |-> s]
    ELSE LET b == BinarySearch(0, start, s)
             moved == SubSeq(a, 1, b.left) \o <<a[start + 1]>>
                      \o SubSeq(a, b.left + 1, start) \o SubSeq(a, start + 2, Len(a))
         IN BinaryInsertionSort(moved, start + 1, b.rng)

RandomSort(a, s) ==
    IF Len(a) < 2 THEN [arr |-> a, rng |-> s]
    ELSE LET r == Random(s)
             isDescending == 2 * r < Modulus
             c == CountRun(Len(a), 3, isDescending, r, 2)
             made == IF isDescending
                     THEN Reverse(SubSeq(a, 1, c.run)) \o SubSeq(a, c.run + 1, Len(a))
                     ELSE a
         IN BinaryInsertionSort(made, c.run, c.rng)

\* the positions carveRoom visits, in its order (x outer, y inner)
RectPositions(x0, y0, w, h) ==
    [k \in 1..(w * h) |-> <<x0 + ((k - 1) \div h), y0 + ((k - 1) % h)>>]

\* carve each position of a sequence in order, from index i on
\* carve ps[lo], ..., ps[hi] in this order; the range is split in halves so
\* that the evaluation stays shallow
RECURSIVE CarveRange(_, _, _, _)
CarveRange(D, ps, lo, hi) ==
    IF D.threw \/ lo > hi THEN D
    ELSE IF lo = hi THEN CarveTile(D, ps[lo][1], ps[lo][2])
    ELSE CarveRange(CarveRange(D, ps, lo, (lo + hi) \div 2), ps, ((lo + hi) \div 2) + 1, hi)

CarveSeq(D, ps, i) == CarveRange(D, ps, i, Len(ps))

carveRoom(D, room) ==
    CarveSeq(D, RectPositions(room.x, room.y, room.width, room.height), 1)

\* a room that starts one tile before its leaf
RoomBeforeLeaf(leaf, rw, rh) ==
    Room(leaf.x - 1, leaf.y - 1, MIN_ROOM_WIDTH, MIN_ROOM_HEIGHT)

\* a room that covers its leaf and one tile around it
RoomAroundLeaf(leaf, rw, rh) ==
    Room(leaf.x - 1, leaf.y - 1, leaf.width + 2, leaf.height + 2)

\* the room createRoomsFromLeaves builds in a leaf from the two draws
RoomInLeaf(leaf, rw, rh) ==
    LET padding == 1
        maxWidth == Min(leaf.width - padding * 2, MAX_ROOM_WIDTH)
        maxHeight == Min(leaf.height - padding * 2, MAX_ROOM_HEIGHT)
        finalWidth == Max(MIN_ROOM_WIDTH,
                          ((maxWidth * 7) \div 10) + FloorMulFrac(rw, maxWidth, 3, 10))
        finalHeight == Max(MIN_ROOM_HEIGHT,
                           ((maxHeight * 7) \div 10) + FloorMulFrac(rh, maxHeight, 3, 10))
        roomX == leaf.x + ((leaf.width - finalWidth) \div 2)
        roomY == leaf.y + ((leaf.height - finalHeight) \div 2)
    IN Room(roomX, roomY, finalWidth, finalHeight)

LeafFits(leaf) == leaf.width > 1 * 2 + 3 /\ leaf.height > 1 * 2 + 3

\* one pass of the loop of createRoomsFromLeaves; D.rooms collects actualRooms
\* (once MAX_ROOMS is reached the loop breaks: the later passes do nothing)
LeafStep(D, leaf) ==
    IF Len(D.rooms) >= MAX_ROOMS \/ ~LeafFits(leaf) THEN D
    ELSE LET rw == Random(D.rng)
             rh == Random(rw)
             room == RoomInLeaf(leaf, rw, rh)
             carved == carveRoom([D EXCEPT !.rng = rh], room)
         IN [carved EXCEPT !.rooms = Append(@, room)]

\* the passes for shuffledLeaves[lo], ..., shuffledLeaves[hi]
RECURSIVE LeafLoop(_, _, _, _)
LeafLoop(D, shuffledLeaves, lo, hi) ==
    IF D.threw \/ lo > hi THEN D
    ELSE IF lo = hi THEN LeafStep(D, shuffledLeaves[lo])
    ELSE LeafLoop(LeafLoop(D, shuffledLeaves, lo, (lo + hi) \div 2),
                  shuffledLeaves, ((lo + hi) \div 2) + 1, hi)

createRoomsFromLeaves(D, bspLeaves) ==
    LET sh == RandomSort(bspLeaves, D.rng)
    IN LeafLoop([D EXCEPT !.rooms = <<>>, !.rng = sh.rng], sh.arr, 1, Len(sh.arr))

\* the BSP leaves of a grid, with the rng state after the splits
Leaves(w, h, s) ==
    splitRecursively(Room(borderSize, borderSize, w - borderSize * 2, h - borderSize * 2),
                     0, s, <<>>)

placeRooms(D) ==
    LET sp == Leaves(D.width, D.height, D.rng)
    IN createRoomsFromLeaves([D EXCEPT !.rng = sp.rng], sp.rooms)

----------------------------------------------------------------------------
(* placeCorridors *)

\* a floor tile that is not part of a room (the test the code repeats inline)
CorridorFloor(D, x, y) ==
    /\ isValidPosition(D.width, D.height, x, y)
    /\ D.tiles[<<x, y>>].type = "floor"
    /\ ~isPartOfRoom(D, x, y)

corridorWouldRunAlongside(D, x1, y1, x2, y2) ==
    IF y1 = y2
    THEN LET startX == Min(x1, x2)
             endX == Max(x1, x2)
         IN IF endX - startX <= 1 THEN FALSE
            ELSE \/ \E i \in 1..Len(D.rooms) :
                       LET room == D.rooms[i]
                       IN /\ (y1 = room.y - 1 \/ y1 = room.y + room.height)
                          /\ ~(startX + 1 >= room.x + room.width \/ endX - 1 <= room.x)
                 \/ \E x \in startX..endX, oy \in {y1 - 1, y1 + 1} :
                       /\ CorridorFloor(D, x, oy)
                       /\ Cardinality({dx \in 0..2 : /\ x + dx <= endX
                                                     /\ CorridorFloor(D, x + dx, oy)}) >= 2
    ELSE IF x1 = x2
    THEN LET startY == Min(y1, y2)
             endY == Max(y1, y2)
         IN IF endY - startY <= 1 THEN FALSE
            ELSE \/ \E i \in 1..Len(D.rooms) :
                       LET room == D.rooms[i]
                       IN /\ (x1 = room.x - 1 \/ x1 = room.x + room.width)
                          /\ ~(startY + 1 >= room.y + room.height \/ endY - 1 <= room.y)
                 \/ \E y \in startY..endY, ox \in {x1 - 1, x1 + 1} :
                       /\ CorridorFloor(D, ox, y)
                       /\ Cardinality({dy \in 0..2 : /\ y + dy <= endY
                                                     /\ CorridorFloor(D, ox, y + dy)}) >= 2
    ELSE FALSE

\* the points of "while (currentX !== endX)" along row y: x1 included, x2 excluded
HorizontalRun(x1, x2, y) ==
    [k \in 1..Abs(x2 - x1) |-> <<IF x1 < x2 THEN x1 + (k - 1) ELSE x1 - (k - 1), y>>]

VerticalRun(x, y1, y2) ==
    [k \in 1..Abs(y2 - y1) |-> <<x, IF y1 < y2 THEN y1 + (k - 1) ELSE y1 - (k - 1)>>]

\* the tiles of a horizontal-then-vertical carve, and of a vertical-then-horizontal one
PathHV(start, end) == HorizontalRun(start.x, end.x, start.y) \o VerticalRun(end.x, start.y, end.y)
PathVH(start, end) == VerticalRun(start.x, start.y, end.y) \o HorizontalRun(start.x, end.x, end.y)

\* a fallback that carves nothing
NoDirectPath(D, x1, y1, x2, y2) == D

createDirectPath(D, x1, y1, x2, y2) ==
    CarveSeq(D, PathHV([x |-> x1, y |-> y1], [x |-> x2, y |-> y2]), 1)

\* new Corridor(start, end, dungeon): one draw chooses the orientation of .path
Corridor(start, end, s, run) ==
    LET r == Random(s)
        body == IF GtHalf(r) THEN PathHV(start, end) ELSE PathVH(start, end)
        e == <<end.x, end.y>>
    IN [corridor |-> [start |-> start, end |-> end, run |-> run, carved |-> "none",
                      met |-> [crossed |-> FALSE, merge |-> NoPosition, rng |-> s],
                      path |-> <<<<start.x, start.y>>>> \o body \o <<e, e>>],
        rng |-> r]

\* an attempt that carves the horizontal run and stops at the corner
StopAtCorner(D, c) ==
    [ok |-> TRUE, D |-> CarveSeq(D, HorizontalRun(c.start.x, c.end.x, c.start.y), 1)]

attemptHorizontalVerticalPath(D, c) ==
    IF \/ corridorWouldRunAlongside(D, c.start.x, c.start.y, c.end.x, c.start.y)
       \/ corridorWouldRunAlongside(D, c.end.x, c.start.y, c.end.x, c.end.y)
    THEN [ok |-> FALSE, D |-> D]
    ELSE [ok |-> TRUE, D |-> CarveSeq(D, PathHV(c.start, c.end), 1)]

attemptVerticalHorizontalPath(D, c) ==
    IF \/ corridorWouldRunAlongside(D, c.start.x, c.start.y, c.start.x, c.end.y)
       \/ corridorWouldRunAlongside(D, c.start.x, c.end.y, c.end.x, c.end.y)
    THEN [ok |-> FALSE, D |-> D]
    ELSE [ok |-> TRUE, D |-> CarveSeq(D, PathVH(c.start, c.end), 1)]

\* findCorridorMergePoint(x1, y1, x2, y2), lines 1105-1172: the first point
\* strictly inside a straight run that has corridor floor beside it or floor
\* on it, NoPosition for null
findCorridorMergePoint(D, x1, y1, x2, y2) ==
    LET Floor(x, y) == /\ isValidPosition(D.width, D.height, x, y)
                       /\ D.tiles[<<x, y>>].type = "floor"
        HitX(x) == CorridorFloor(D, x, y1 - 1) \/ CorridorFloor(D, x, y1 + 1) \/ Floor(x, y1)
        HitY(y) == CorridorFloor(D, x1 - 1, y) \/ CorridorFloor(D, x1 + 1, y) \/ Floor(x1, y)
        InsideX == (Min(x1, x2) + 1)..(Max(x1, x2) - 1)
        InsideY == (Min(y1, y2) + 1)..(Max(y1, y2) - 1)
    IN IF ~(/\ isValidPosition(D.width, D.height, x1, y1)
            /\ isValidPosition(D.width, D.height, x2, y2))
       THEN NoPosition
       ELSE IF y1 = y2
       THEN IF Max(x1, x2) - Min(x1, x2) > 2 /\ \E x \in InsideX : HitX(x)
            THEN <<CHOOSE x \in InsideX : HitX(x) /\ \A u \in InsideX : u < x => ~HitX(u), y1>>
            ELSE NoPosition
       ELSE IF x1 = x2
       THEN IF Max(y1, y2) - Min(y1, y2) > 2 /\ \E y \in InsideY : HitY(y)
            THEN <<x1, CHOOSE y \in InsideY : HitY(y) /\ \A u \in InsideY : u < y => ~HitY(u)>>
            ELSE NoPosition
       ELSE NoPosition

\* what the grid shows of the first straight run of a corridor when it is
\* about to be carved in the orientation how: whether a corridor floor tile
\* lies strictly inside the run, and the merge point of the run
FirstRun(D, c, how) ==
    LET cornerX == IF how = "hv" THEN c.end.x ELSE c.start.x
        cornerY == IF how = "hv" THEN c.start.y ELSE c.end.y
        run == IF how = "hv" THEN HorizontalRun(c.start.x, c.end.x, c.start.y)
               ELSE VerticalRun(c.start.x, c.start.y, c.end.y)
    IN [crossed |-> /\ how \in {"hv", "vh"}
                    /\ \E k \in 2..Len(run) : CorridorFloor(D, run[k][1], run[k][2]),
        merge |-> IF how \in {"hv", "vh"}
                  THEN findCorridorMergePoint(D, c.start.x, c.start.y, cornerX, cornerY)
                  ELSE NoPosition,
        rng |-> D.rng]

\* tryCorridorPath; how records the orientation carved
tryCorridorPath(D, c) ==
    LET Second(vh) ==
            IF vh.ok THEN [ok |-> TRUE, D |-> vh.D, how |-> "vh"]
            ELSE [ok |-> FALSE, D |-> D, how |-> "none"]
        First(hv, vh) ==
            IF hv.ok THEN [ok |-> TRUE, D |-> hv.D, how |-> "hv"] ELSE Second(vh)
    IN First(attemptHorizontalVerticalPath(D, c), attemptVerticalHorizontalPath(D, c))

findBestDoorPosition(roomA, roomB, attemptNumber, s) ==
    LET centerA == getCenter(roomA)
        centerB == getCenter(roomB)
        horizontalDirection == IF centerB.x > centerA.x THEN 1 ELSE -1
        verticalDirection == IF centerB.y > centerA.y THEN 1 ELSE -1
        adx == Abs(centerB.x - centerA.x)
        ady == Abs(centerB.y - centerA.y)
        sideX == IF horizontalDirection > 0 THEN roomA.x + roomA.width - 1 ELSE roomA.x
        sideY == IF verticalDirection > 0 THEN roomA.y + roomA.height - 1 ELSE roomA.y
        r == Random(s)
    IN IF attemptNumber = 0
       THEN IF adx > ady
            THEN [x |-> sideX, y |-> roomA.y + 1 + FloorMul(r, roomA.height - 2), rng |-> r]
            ELSE [x |-> roomA.x + 1 + FloorMul(r, roomA.width - 2), y |-> sideY, rng |-> r]
       ELSE IF attemptNumber = 1
       THEN IF adx <= ady
            THEN [x |-> sideX, y |-> roomA.y + ((roomA.height * 3) \div 4), rng |-> s]
            ELSE [x |-> roomA.x + (roomA.width \div 4), y |-> sideY, rng |-> s]
       ELSE IF GtHalf(r)
            THEN [x |-> sideX, y |-> roomA.y + (roomA.height \div 2), rng |-> r]
            ELSE [x |-> roomA.x + (roomA.width \div 2), y |-> sideY, rng |-> r]

\* createCorridor(roomA, roomB): the attempts from attempt on (0, 1, 2), then
\* the fallback (3): the two door positions, the validity test and the
\* Corridor object, then the path attempts
RECURSIVE createCorridorFrom(_, _, _, _)
createCorridorFrom(D, roomA, roomB, attempt) ==
    LET n == IF attempt < 3 THEN attempt ELSE 0
        Tried(c, D1, try) ==
            IF try.ok
            THEN [ok |-> TRUE, D |-> try.D,
                  corridor |-> [c EXCEPT !.carved = try.how, !.met = FirstRun(D1, c, try.how)]]
            ELSE createCorridorFrom(D1, roomA, roomB, attempt + 1)
        Direct(c, D1) ==
            [ok |-> TRUE,
             D |-> createDirectPath(D1, c.start.x, c.start.y, c.end.x, c.end.y),
             corridor |-> [c EXCEPT !.carved = "direct"]]
        \* laid is the Corridor object, or the rng state left by invalid doors
        Carved(laid, D1) ==
            IF ~laid.valid
            THEN IF attempt < 3 THEN createCorridorFrom(D1, roomA, roomB, attempt + 1)
                 ELSE [ok |-> FALSE, D |-> D1]
            ELSE IF attempt < 3
            THEN Tried(laid.corridor, D1, tryCorridorPath(D1, laid.corridor))
            ELSE Direct(laid.corridor, D1)
        Built(laid) == Carved(laid, [D EXCEPT !.rng = laid.rng])
        Doors(doorA, doorB) ==
            IF ~(/\ isValidPosition(D.width, D.height, doorA.x, doorA.y)
                 /\ isValidPosition(D.width, D.height, doorB.x, doorB.y))
            THEN [valid |-> FALSE, rng |-> doorB.rng]
            ELSE Corridor([x |-> doorA.x, y |-> doorA.y],
                          [x |-> doorB.x, y |-> doorB.y], doorB.rng, D.run)
                     @@ [valid |-> TRUE]
        From(doorA) == Doors(doorA, findBestDoorPosition(roomB, roomA, n, doorA.rng))
    IN Built(From(findBestDoorPosition(roomA, roomB, n, D.rng)))

createCorridor(D, a, b) == createCorridorFrom(D, D.rooms[a], D.rooms[b], 0)

\* all pairs i < j in the order of the two nested loops, with their distance
RoomPairs(rs) ==
    LET n == Len(rs)
        PairAt(k) ==
            CHOOSE p \in (1..n) \X (1..n) :
                /\ p[1] < p[2]
                /\ k = Cardinality({q \in (1..n) \X (1..n) :
                                      /\ q[1] < q[2]
                                      /\ (q[1] < p[1] \/ (q[1] = p[1] /\ q[2] <= p[2]))})
    IN [k \in 1..((n * (n - 1)) \div 2) |->
          LET p == PairAt(k)
              centerA == getCenter(rs[p[1]])
              centerB == getCenter(rs[p[2]])
          IN [roomA |-> p[1], roomB |-> p[2],
              distance |-> Abs(centerA.x - centerB.x) + Abs(centerA.y - centerB.y)]]

\* Array.prototype.sort with a consistent comparator is stable:
\* ascending by Key, ties in the original order
SortByKey(a, Key(_)) ==
    LET n == Len(a)
        Rank(k) == Cardinality({m \in 1..n : \/ Key(a[m]) < Key(a[k])
                                             \/ (Key(a[m]) = Key(a[k]) /\ m <= k)})
    IN [p \in 1..n |-> a[CHOOSE k \in 1..n : Rank(k) = p]]

RemoveAt(a, i) == SubSeq(a, 1, i - 1) \o SubSeq(a, i + 1, Len(a))

\* the first pair with exactly one connected room, 0 when there is none
FirstJoinable(rs, pairs) ==
    LET J(i) == rs[pairs[i].roomA].connected # rs[pairs[i].roomB].connected
    IN IF \E i \in 1..Len(pairs) : J(i)
       THEN CHOOSE i \in 1..Len(pairs) : J(i) /\ \A j \in 1..(i - 1) : ~J(j)
       ELSE 0

\* the corridor pushed to this.corridors, with the rooms createCorridor was
\* called for (from and to of the connections entry) and the loop that made it
Connection(corridor, from, to, extra) ==
    corridor @@ [from |-> from, to |-> to, extra |-> extra]

\* the spanning loop (lines 625-667); a pass that finds no joinable pair
\* would repeat for ever and is reported as hung
RECURSIVE SpanningLoop(_, _, _, _)

\* the end of a pass: cc is what createCorridor(from, to) returned for pair i
SpanningJoined(D, pairs, connections, connectedCount, i, from, to, cc) ==
    IF cc.ok
    THEN SpanningLoop([cc.D EXCEPT !.corridors =
                                       Append(@, Connection(cc.corridor, from, to, FALSE)),
                                   !.rooms[to].connected = TRUE],
                      RemoveAt(pairs, i), connections \cup {<<from, to>>}, connectedCount + 1)
    ELSE SpanningLoop(cc.D, RemoveAt(pairs, i), connections, connectedCount)

\* the connected room of a pair and the other one
ConnectedEnd(D, pair) == IF D.rooms[pair.roomA].connected THEN pair.roomA ELSE pair.roomB
OtherEnd(D, pair) == IF D.rooms[pair.roomA].connected THEN pair.roomB ELSE pair.roomA

\* a pass for the pair i, the connected room of the pair first
SpanningPass(D, pairs, connections, connectedCount, i) ==
    IF i = 0
    THEN [D |-> [D EXCEPT !.hung = TRUE], pairs |-> pairs, connections |-> connections]
    ELSE SpanningJoined(D, pairs, connections, connectedCount, i,
                        ConnectedEnd(D, pairs[i]), OtherEnd(D, pairs[i]),
                        createCorridor(D, ConnectedEnd(D, pairs[i]), OtherEnd(D, pairs[i])))

SpanningLoop(D, pairs, connections, connectedCount) ==
    IF D.threw \/ ~(connectedCount < Len(D.rooms) /\ Len(pairs) > 0)
    THEN [D |-> D, pairs |-> pairs, connections |-> connections]
    ELSE SpanningPass(D, pairs, connections, connectedCount, FirstJoinable(D.rooms, pairs))

\* two extra corridors whatever the number of rooms
TwoExtraCorridors(n) == 2

ExtraCorridors(n) == Max(1, n \div 10)

\* the first pair from i on that the extra loop would connect (neither the
\* connected flags nor connections change in that loop), Len(pairs) + 1 if none
NextExtra(D, pairs, connections, i) ==
    LET E(j) == /\ D.rooms[pairs[j].roomA].connected
                /\ D.rooms[pairs[j].roomB].connected
                /\ <<pairs[j].roomA, pairs[j].roomB>> \notin connections
                /\ <<pairs[j].roomB, pairs[j].roomA>> \notin connections
    IN IF \E j \in i..Len(pairs) : E(j)
       THEN CHOOSE j \in i..Len(pairs) : E(j) /\ \A k \in i..(j - 1) : ~E(k)
       ELSE Len(pairs) + 1

\* the loop adding extra corridors (lines 671-694)
RECURSIVE ExtraLoop(_, _, _, _, _)

\* cc is what createCorridor returned for pair i
ExtraMade(D, pairs, connections, i, extraCount, cc) ==
    IF cc.ok
    THEN ExtraLoop([cc.D EXCEPT !.corridors =
                                    Append(@, Connection(cc.corridor, pairs[i].roomA,
                                                         pairs[i].roomB, TRUE))],
                   pairs, connections, i + 1, extraCount + 1)
    ELSE ExtraLoop(cc.D, pairs, connections, i + 1, extraCount)

ExtraAt(D, pairs, connections, i, extraCount) ==
    IF ~(i <= Len(pairs) /\ extraCount < ExtraCorridors(Len(D.rooms))) THEN D
    ELSE ExtraMade(D, pairs, connections, i, extraCount,
                   createCorridor(D, pairs[i].roomA, pairs[i].roomB))

ExtraLoop(D, pairs, connections, i0, extraCount) ==
    IF D.threw \/ D.hung THEN D
    ELSE ExtraAt(D, pairs, connections, NextExtra(D, pairs, connections, i0), extraCount)

\* a sort key that leaves the pairs in the order of the nested loops
PairOrder(p) == 0

PairDistance(p) == p.distance

\* the spanning loop over the pairs sorted by distance, from room 1
Spanned(D0) == SpanningLoop(D0, SortByKey(RoomPairs(D0.rooms), PairDistance), {}, 1)

\* the extra loop over what the spanning loop left
Looped(mst) == ExtraLoop(mst.D, mst.pairs, mst.connections, 1, 0)

placeCorridors(D) ==
    Looped(Spanned([D EXCEPT !.corridors = <<>>,
                             !.rooms = [i \in 1..Len(D.rooms) |->
                                           [D.rooms[i] EXCEPT !.connected = (i = 1)]]]))

----------------------------------------------------------------------------
(* Item, Chest, Creature: what their constructors draw and what they hold *)

\* new Item(dungeon, ""): rollType is one draw, a "gold" item rolls its value
ItemValue(t) == IF FloorMul(t, 5) = 4 THEN Random(t) ELSE t

ItemRng(s) == ItemValue(Random(s))

\* the loop of generateLoot: n items
RECURSIVE LootRng(_, _)
LootRng(s, n) == IF n <= 0 THEN s ELSE LootRng(ItemRng(s), n - 1)

rollQuality(r) ==
    IF Lt(r, 50, 100) THEN "common"
    ELSE IF Lt(r, 70, 100) THEN "uncommon"
    ELSE IF Lt(r, 85, 100) THEN "rare"
    ELSE IF Lt(r, 95, 100) THEN "epic"
    ELSE "legendary"

ItemCount(quality) ==
    CASE quality = "uncommon" -> 4
      [] quality = "rare" -> 6
      [] quality = "epic" -> 8
      [] quality = "legendary" -> 10
      [] OTHER -> 2

\* new Chest(dungeon, "", quality, room, x, y); quality "" is rolled.  The
\* steps read from the bottom: the quality, the lock (epic and legendary
\* chests are locked without a draw), the number of items and the loot.
Chest(s, quality, room, x, y, id, run) ==
    LET Filled(quality1, locked, c) ==
            [chest |-> [id |-> id, x |-> x, y |-> y, room |-> room, run |-> run,
                        quality |-> quality1, locked |-> locked, keys |-> <<>>],
             rng |-> c]
        Locked(quality1, forced, s1, l) ==
            Filled(quality1, forced \/ Lt(l, 3, 10), Random(IF forced THEN s1 ELSE l))
        Rolled(quality1, s1) ==
            Locked(quality1, quality1 \in {"epic", "legendary"}, s1, Random(s1))
        Drawn(q) ==
            Rolled(IF quality = "" THEN rollQuality(q) ELSE quality,
                   IF quality = "" THEN q ELSE s)
        Looted(made) ==
            [made EXCEPT !.rng = LootRng(@, FloorMul(@, ItemCount(made.chest.quality)) + 1)]
    IN Looted(Drawn(Random(s)))

\* the draws of rollLoot after goldRoll: gold that is always given rolls its
\* multiplier and its value, then one draw per possible drop
LootDraws(type, goldRoll) ==
    CASE type = "spider" -> (IF Lt(goldRoll, 3, 10) THEN 1 ELSE 0) + 1
      [] type = "goblin" -> 2 + 2
      [] type = "skeleton" -> (IF Lt(goldRoll, 4, 10) THEN 1 ELSE 0) + 3
      [] type = "zombie" -> (IF Lt(goldRoll, 5, 10) THEN 1 ELSE 0) + 2
      [] type = "orc" -> 2 + 3
      [] type = "troll" -> 2 + 3
      [] type = "whelp" -> 2 + 2
      [] type = "demon" -> 2 + 3
      [] type = "lich" -> 2 + 4

\* new Creature(dungeon, type, ""): rollHealth, rollAsleep, rollLoot
Creature(s, type, room, x, y, id, run) ==
    LET Looted(goldRoll) ==
            [creature |-> [id |-> id, type |-> type, x |-> x, y |-> y, room |-> room,
                           run |-> run, keys |-> <<>>],
             rng |-> Skip(goldRoll, LootDraws(type, goldRoll))]
    IN Looted(Skip(s, 3))

----------------------------------------------------------------------------
(* Doors of a room, creatures *)

isPerimeter(room, x, y) ==
    \/ /\ (x = room.x - 1 \/ x = room.x + room.width)
       /\ (y >= room.y /\ y < room.y + room.height)
    \/ /\ (y = room.y - 1 \/ y = room.y + room.height)
       /\ (x >= room.x /\ x < room.x + room.width)

\* findDoorsForRoom: the positions of the door tiles bound to room number i
findDoorsForRoom(D, i) ==
    LET room == D.rooms[i]
    IN {p \in ((room.x - 1)..(room.x + room.width)) \X ((room.y - 1)..(room.y + room.height)) :
          /\ isPerimeter(room, p[1], p[2])
          /\ isValidPosition(D.width, D.height, p[1], p[2])
          /\ D.tiles[p].type = "door"
          /\ D.tiles[p].room = i}

\* doors.length > 0 && doors.every(door => door.obj.locked)
isLockedRoom(D, i) ==
    /\ findDoorsForRoom(D, i) # {}
    /\ \A p \in findDoorsForRoom(D, i) : D.tiles[p].locked

\* the type placeCreatureAt rolls: roll is its first draw, again the draw
\* after it
CreatureType(roll, again, room, lockedRoom) ==
    IF room = 0
    THEN IF Lt(roll, 35, 100) THEN "spider"
         ELSE IF Lt(roll, 6, 10) THEN "goblin"
         ELSE IF Lt(roll, 9, 10) THEN "skeleton"
         ELSE "zombie"
    ELSE IF lockedRoom
    THEN IF Lt(roll, 5, 100) THEN "goblin"
         ELSE IF Lt(roll, 2, 10) THEN "skeleton"
         ELSE IF Lt(roll, 5, 10) THEN "orc"
         ELSE IF Lt(roll, 7, 10) THEN "troll"
         ELSE IF Lt(roll, 9, 10) THEN "demon"
         ELSE IF FloorMul(again, 2) = 0 THEN "whelp" ELSE "lich"
    ELSE IF Lt(roll, 3, 10) THEN "goblin"
         ELSE IF Lt(roll, 6, 10) THEN "skeleton"
         ELSE IF Lt(roll, 8, 10) THEN "zombie"
         ELSE IF Lt(roll, 95, 100) THEN "orc"
         ELSE "troll"

\* the creature of that type; the second draw is made in a locked room only,
\* for the strongest types
RolledCreature(roll, again, room, lockedRoom, x, y, id, run) ==
    Creature(IF lockedRoom /\ ~Lt(roll, 9, 10) THEN again ELSE roll,
             CreatureType(roll, again, room, lockedRoom), room, x, y, id, run)

\* placeCreatureAt(x, y, room); room 0 stands for null
placeCreatureAt(D, x, y, room) ==
    LET Put(c) == [D EXCEPT !.rng = c.rng,
                            !.nextId = @ + 1,
                            !.creatures = Append(@, c.creature),
                            !.tiles[<<x, y>>].creature = c.creature.id]
    IN Put(RolledCreature(Random(D.rng), Random(Random(D.rng)), room,
                          room # 0 /\ isLockedRoom(D, room), x, y, D.nextId, D.run))

----------------------------------------------------------------------------
(* addCorridorVariety *)

ChestItem(id) == [kind |-> "chest", a |-> id, b |-> 0]

\* the number of consecutive corridor floor tiles at (x, y) + k * (dx, dy), k, k + 1, ...
RunLength(D, x, y, dx, dy, k) ==
    Cardinality({n \in 1..Max(D.width, D.height) :
                   \A j \in 0..(n - 1) : CorridorFloor(D, x + (k + j) * dx, y + (k + j) * dy)})

isLongStraightCorridor(D, x, y) ==
    /\ CorridorFloor(D, x, y)
    /\ \/ 1 + RunLength(D, x, y, 1, 0, 1) + RunLength(D, x, y, -1, 0, 1) >= 6
       \/ 1 + RunLength(D, x, y, 0, 1, 1) + RunLength(D, x, y, 0, -1, 1) >= 6

getCorridorOrientation(D, x, y) ==
    LET Longer(horizontalLength, verticalLength) ==
            IF horizontalLength > verticalLength THEN "horizontal"
            ELSE IF verticalLength > horizontalLength THEN "vertical"
            ELSE "null"
    IN Longer(RunLength(D, x, y, 1, 0, 0) + RunLength(D, x, y, -1, 0, 1),
              RunLength(D, x, y, 0, 1, 0) + RunLength(D, x, y, 0, -1, 1))

\* the dungeon after one call of this.random(): the number drawn is its rng
AfterDraw(D) == [D EXCEPT !.rng = Random(D.rng)]

\* the chest of an alcove
AlcoveChest(D1, x, y, c) ==
    [D1 EXCEPT !.rng = c.rng,
               !.nextId = @ + 1,
               !.tiles[<<x, y>>].item = [kind |-> "chest", a |-> c.chest.id, b |-> 0],
               !.chests = Append(@, c.chest)]

\* addAlcoveContent after its draw
AlcoveContent(D1, x, y) ==
    IF Lt(D1.rng, 3, 10)
    THEN AlcoveChest(D1, x, y, Chest(D1.rng, "common", 0, x, y, D1.nextId, D1.run))
    ELSE IF Lt(D1.rng, 6, 10) THEN placeCreatureAt(D1, x, y, 0)
    ELSE D1

addAlcoveContent(D, x, y) == AlcoveContent(AfterDraw(D), x, y)

\* the alcove tile is floor: the draw that decides on its content
AlcoveDug(D3, ax, ay) == IF Lt(D3.rng, 3, 10) THEN addAlcoveContent(D3, ax, ay) ELSE D3

\* the alcove at (ax, ay), dug only in a wall inside the border
AlcoveAt(D1, ax, ay) ==
    IF isValidPosition(D1.width, D1.height, ax, ay) /\ D1.tiles[<<ax, ay>>].type = "wall"
    THEN AlcoveDug(AfterDraw(SetFloor(D1, ax, ay)), ax, ay)
    ELSE D1

\* addAlcove after its draw, which chooses the side of the corridor
AlcoveSide(D1, x, y, orientation) ==
    AlcoveAt(D1,
             IF orientation = "horizontal" THEN x
             ELSE IF Lt(D1.rng, 1, 2) THEN x - 1 ELSE x + 1,
             IF orientation = "horizontal" THEN (IF Lt(D1.rng, 1, 2) THEN y - 1 ELSE y + 1)
             ELSE y)

addAlcove(D, x, y, orientation) == AlcoveSide(AfterDraw(D), x, y, orientation)

\* the nine positions around (x, y), dx outer and dy inner
Around(x, y) == [k \in 1..9 |-> <<x - 1 + ((k - 1) \div 3), y - 1 + ((k - 1) % 3)>>]

RECURSIVE FloorWalls(_, _, _)
FloorWalls(D, ps, i) ==
    IF D.threw \/ i > Len(ps) THEN D
    ELSE FloorWalls(IF /\ isValidPosition(D.width, D.height, ps[i][1], ps[i][2])
                       /\ D.tiles[ps[i]].type = "wall"
                    THEN SetFloor(D, ps[i][1], ps[i][2]) ELSE D,
                    ps, i + 1)

\* addRestArea after the nine tiles and its draw
RestArea(D2, x, y) == IF Lt(D2.rng, 3, 10) THEN placeCreatureAt(D2, x, y, 0) ELSE D2

addRestArea(D, x, y) == RestArea(AfterDraw(FloorWalls(D, Around(x, y), 1)), x, y)

addDecoration(D, x, y) ==
    LET roll == Random(D.rng)
    IN IF Lt(roll, 3, 10)
       THEN [D EXCEPT !.rng = roll, !.tiles[<<x, y>>].type = "pillar"]
       ELSE IF Lt(roll, 6, 10)
       THEN [D EXCEPT !.rng = roll, !.tiles[<<x, y>>].debris = TRUE]
       ELSE [D EXCEPT !.rng = Random(roll), !.tiles[<<x, y>>].trap = TRUE]

\* the feature chosen by the second draw of a pass
Feature(D1, px, py, orientation) ==
    IF Lt(D1.rng, 4, 10) THEN addAlcove(D1, px, py, orientation)
    ELSE IF Lt(D1.rng, 7, 10) THEN addRestArea(D1, px, py)
    ELSE addDecoration(D1, px, py)

\* a pass after its first draw: a feature with chance 0.4
VarietyAt(D1, px, py, orientation) ==
    IF ~Lt(D1.rng, 4, 10) THEN D1 ELSE Feature(AfterDraw(D1), px, py, orientation)

\* the loop "for (let i = 2; i < length - 2; i += 3)" of the two addVarietyTo... methods
RECURSIVE VarietyLoop(_, _, _, _, _, _, _)
VarietyLoop(D, x, y, dx, dy, length, i) ==
    IF D.threw \/ ~(i < length - 2) THEN D
    ELSE VarietyLoop(VarietyAt(AfterDraw(D), x + i * dx, y + i * dy,
                               IF dx = 1 THEN "horizontal" ELSE "vertical"),
                     x, y, dx, dy, length, i + 3)

addVarietyToHorizontalCorridor(D, x, y) ==
    VarietyLoop(D, x, y, 1, 0, RunLength(D, x, y, 1, 0, 0), 2)

addVarietyToVerticalCorridor(D, x, y) ==
    VarietyLoop(D, x, y, 0, 1, RunLength(D, x, y, 0, 1, 0), 2)

\* the corridor varied along its orientation
Vary(D1, x, y, orientation) ==
    IF orientation = "horizontal" THEN addVarietyToHorizontalCorridor(D1, x, y)
    ELSE IF orientation = "vertical" THEN addVarietyToVerticalCorridor(D1, x, y)
    ELSE D1

\* a long straight corridor after the draw: varied with chance 0.5
VarietyDrawn(D1, x, y) ==
    IF ~Lt(D1.rng, 1, 2) THEN D1 ELSE Vary(D1, x, y, getCorridorOrientation(D1, x, y))

\* one pass of the double loop of addCorridorVariety, at position (x, y)
VarietyStep(D, x, y) ==
    IF ~isLongStraightCorridor(D, x, y) THEN D ELSE VarietyDrawn(AfterDraw(D), x, y)

\* the passes lo..hi of the double loop: pass k is at x = k \div height, y = k % height
RECURSIVE VarietyScan(_, _, _)
VarietyScan(D, lo, hi) ==
    IF D.threw \/ lo > hi THEN D
    ELSE IF lo = hi THEN VarietyStep(D, lo \div D.height, lo % D.height)
    ELSE VarietyScan(VarietyScan(D, lo, (lo + hi) \div 2), ((lo + hi) \div 2) + 1, hi)

addCorridorVariety(D) == VarietyScan(D, 0, D.width * D.height - 1)

----------------------------------------------------------------------------
(* placeDoors *)

Directions == <<[dx |-> 0, dy |-> -1, facing |-> "north"],
                [dx |-> 1, dy |-> 0, facing |-> "east"],
                [dx |-> 0, dy |-> 1, facing |-> "south"],
                [dx |-> -1, dy |-> 0, facing |-> "west"]>>

\* a corner test that lets every position pass
NeverNearCorner(x, y, room, direction) == FALSE

isNearRoomCorner(x, y, room, direction) ==
    LET cornerDistance == 1
    IN IF direction \in {"north", "south"}
       THEN (x <= room.x + cornerDistance) \/ (x >= room.x + room.width - 1 - cornerDistance)
       ELSE (y <= room.y + cornerDistance) \/ (y >= room.y + room.height - 1 - cornerDistance)

\* the directions in which (x, y) has a floor tile of a room as neighbour
RoomSides(D, x, y) ==
    {i \in 1..4 : /\ isValidPosition(D.width, D.height, x + Directions[i].dx, y + Directions[i].dy)
                  /\ D.tiles[<<x + Directions[i].dx, y + Directions[i].dy>>].type = "floor"
                  /\ isPartOfRoom(D, x + Directions[i].dx, y + Directions[i].dy)}

checkDoorPosition(D, x, y) ==
    LET sides == RoomSides(D, x, y)
        dir == Directions[CHOOSE i \in sides : TRUE]
        oppositeX == x - dir.dx
        oppositeY == y - dir.dy
        adjacentRoom == getRoomForPosition(D, x + dir.dx, y + dir.dy)
    IN IF Cardinality(sides) # 1 THEN [isValid |-> FALSE]
       ELSE IF \/ ~isValidPosition(D.width, D.height, oppositeX, oppositeY)
               \/ D.tiles[<<oppositeX, oppositeY>>].type = "wall"
               \/ isPartOfRoom(D, oppositeX, oppositeY)
       THEN [isValid |-> FALSE]
       ELSE IF isNearRoomCorner(x, y, D.rooms[adjacentRoom], dir.facing)
       THEN [isValid |-> FALSE]
       ELSE [isValid |-> TRUE, roomEntranceDirection |-> dir.facing,
             adjacentRoom |-> adjacentRoom]

\* the elements of a finite set in ascending order of an injective key
SeqByKey(S, Key(_)) ==
    [p \in 1..Cardinality(S) |->
        CHOOSE e \in S : Cardinality({f \in S : Key(f) <= Key(e)}) = p]

\* potentialDoors: the candidates in scan order (x outer, y inner), each with
\* its three draws
PotentialDoors(D) ==
    LET ScanOrder(p) == p[1] * D.height + p[2]
        Candidate(k, x, y, doorInfo) ==
            [x |-> x, y |-> y,
             roomEntranceDirection |-> doorInfo.roomEntranceDirection,
             adjacentRoom |-> doorInfo.adjacentRoom,
             isLocked |-> Lt(Skip(D.rng, 3 * k - 2), 3, 10),
             isTrapped |-> Lt(Skip(D.rng, 3 * k - 1), 1, 10),
             interestScore |-> Skip(D.rng, 3 * k)]
        At(k, p) == Candidate(k, p[1], p[2], checkDoorPosition(D, p[1], p[2]))
        InOrder(at) == [k \in 1..Len(at) |-> At(k, at[k])]
    IN InOrder(SeqByKey({p \in Positions(D.width, D.height) :
                           /\ CorridorFloor(D, p[1], p[2])
                           /\ checkDoorPosition(D, p[1], p[2]).isValid},
                        ScanOrder))

Adjacent(a, b) == Abs(a.x - b.x) <= 1 /\ Abs(a.y - b.y) <= 1

\* groupAdjacentDoors, passes lo..hi of the outer loop; st.groups holds the
\* groups as sequences of indices into ds (the candidates), st.assigned the set assigned
GroupStep(st, ds, i) ==
    IF i \in st.assigned THEN st
    ELSE LET others == {j \in 1..Len(ds) : /\ j # i
                                              /\ j \notin st.assigned
                                              /\ Adjacent(ds[i], ds[j])}
             Index(j) == j
         IN [groups |-> Append(st.groups, <<i>> \o SeqByKey(others, Index)),
             assigned |-> st.assigned \cup {i} \cup others]

RECURSIVE GroupRange(_, _, _, _)
GroupRange(st, ds, lo, hi) ==
    IF st.assigned = 1..Len(ds) \/ lo > hi THEN st
    ELSE IF lo = hi THEN GroupStep(st, ds, lo)
    ELSE GroupRange(GroupRange(st, ds, lo, (lo + hi) \div 2), ds,
                    ((lo + hi) \div 2) + 1, hi)

groupAdjacentDoors(ds) ==
    LET g == GroupRange([groups |-> <<>>, assigned |-> {}], ds, 1, Len(ds)).groups
    IN [k \in 1..Len(g) |-> [m \in 1..Len(g[k]) |-> ds[g[k][m]]]]

\* score = 2 * locked + 3 * trapped + interestScore, compared exactly
DoorScore(door) ==
    ((IF door.isLocked THEN 2 ELSE 0) + (IF door.isTrapped THEN 3 ELSE 0)) * Modulus
    + door.interestScore

\* the first door of the group with the highest score
selectBestDoor(doorGroup) ==
    doorGroup[CHOOSE i \in 1..Len(doorGroup) :
                /\ \A j \in 1..Len(doorGroup) : DoorScore(doorGroup[j]) <= DoorScore(doorGroup[i])
                /\ \A j \in 1..(i - 1) : DoorScore(doorGroup[j]) < DoorScore(doorGroup[i])]

\* new Tile("door", dungeon): Door rolls locked and trapped and builds its trap
DoorTile(s) ==
    LET l == Random(s)
        t == Random(l)
        hasTrap == Lt(t, 1, 10)
    IN [tile |-> [WallTile EXCEPT !.type = "door", !.locked = Lt(l, 3, 10),
                                  !.trapped = hasTrap, !.trap = hasTrap, !.facing = "north"],
        rng |-> IF hasTrap THEN TrapRng(t) ELSE t]

createDoorAt(D, x, y, facing, room, isLocked, isTrapped) ==
    LET d == DoorTile(D.rng)
        tile == [d.tile EXCEPT !.facing = facing, !.room = room,
                               !.locked = isLocked, !.trapped = isTrapped]
    IN [D EXCEPT !.rng = d.rng,
                 !.tiles[<<x, y>>] = tile,
                 !.doors = Append(@, [x |-> x, y |-> y, run |-> D.run, facing |-> facing,
                                      room |-> room, locked |-> isLocked,
                                      trapped |-> isTrapped, trap |-> tile.trap])]

\* one pass of the placement loop
PlaceGroup(D, group) ==
    LET Create(D1, door) ==
            createDoorAt(D1, door.x, door.y, door.roomEntranceDirection,
                         door.adjacentRoom, door.isLocked, door.isTrapped)
        Single(skip) ==
            IF Lt(skip, 2, 10) THEN [D EXCEPT !.rng = skip]
            ELSE Create([D EXCEPT !.rng = skip], group[1])
    IN IF Len(group) = 1 THEN Single(Random(D.rng))
       ELSE Create(D, selectBestDoor(group))

RECURSIVE PlaceGroups(_, _, _, _)
PlaceGroups(D, doorGroups, lo, hi) ==
    IF D.threw \/ lo > hi THEN D
    ELSE IF lo = hi THEN PlaceGroup(D, doorGroups[lo])
    ELSE PlaceGroups(PlaceGroups(D, doorGroups, lo, (lo + hi) \div 2), doorGroups,
                     ((lo + hi) \div 2) + 1, hi)

placeDoors(D) ==
    LET Place(n, doorGroups) ==
            IF n = 0 \/ Len(doorGroups) = 0 THEN D
            ELSE PlaceGroups([D EXCEPT !.rng = Skip(D.rng, 3 * n)],
                             doorGroups, 1, Len(doorGroups))
        Group(potentialDoors) ==
            Place(Len(potentialDoors), groupAdjacentDoors(potentialDoors))
    IN Group(PotentialDoors(D))

----------------------------------------------------------------------------
(* placeChests *)

\* the quality placeChestInRoom passes to the Chest constructor, with the rng after
ChestQuality(lockedRoom, s) ==
    LET r1 == Random(s)
        r2 == Random(r1)
        r3 == Random(r2)
    IN IF lockedRoom
       THEN IF Lt(r1, 2, 10) THEN [quality |-> "rare", rng |-> r1]
            ELSE IF Lt(r2, 1, 10) THEN [quality |-> "epic", rng |-> r2]
            ELSE IF Lt(r3, 5, 100) THEN [quality |-> "legendary", rng |-> r3]
            ELSE [quality |-> "", rng |-> r3]
       ELSE IF Lt(r1, 75, 100) THEN [quality |-> "common", rng |-> r1]
            ELSE [quality |-> "", rng |-> r1]

\* the attempts of placeChestInRoom from attempts on
RECURSIVE ChestAttempts(_, _, _)
ChestAttempts(D, i, attempts) ==
    LET room == D.rooms[i]
        minX == room.x + 1
        maxX == room.x + room.width - 2
        minY == room.y + 1
        maxY == room.y + room.height - 2
        rx == Random(D.rng)
        ry == Random(rx)
        x == minX + FloorMul(rx, maxX - minX + 1)
        y == minY + FloorMul(ry, maxY - minY + 1)
        q == ChestQuality(isLockedRoom(D, i), ry)
        c == Chest(q.rng, q.quality, i, x, y, D.nextId, D.run)
    IN IF D.threw \/ attempts >= 5 THEN D
       ELSE IF D.tiles[<<x, y>>].type = "floor" /\ D.tiles[<<x, y>>].item.kind = "none"
       THEN [D EXCEPT !.rng = c.rng,
                      !.nextId = @ + 1,
                      !.tiles[<<x, y>>].item = ChestItem(c.chest.id),
                      !.chests = Append(@, c.chest)]
       ELSE ChestAttempts([D EXCEPT !.rng = ry], i, attempts + 1)

placeChestInRoom(D, i) ==
    IF \/ D.rooms[i].x + D.rooms[i].width - 2 < D.rooms[i].x + 1
       \/ D.rooms[i].y + D.rooms[i].height - 2 < D.rooms[i].y + 1
    THEN D
    ELSE ChestAttempts(D, i, 0)

NumChests(n) == Max(1, n \div 3)

\* the placement loop over the sorted rooms (order holds room numbers)
RECURSIVE ChestLoop(_, _, _)
ChestLoop(D, order, k) ==
    IF D.threw \/ ~(k <= Len(order) /\ k - 1 < NumChests(Len(D.rooms))) THEN D
    ELSE ChestLoop(placeChestInRoom(D, order[k]), order, k + 1)

placeChests(D) ==
    LET n == Len(D.rooms)
        \* locked rooms first, then the larger area first
        Priority(i) == (IF isLockedRoom(D, i) THEN 0 ELSE MAX_ROOM_WIDTH * MAX_ROOM_HEIGHT + 1)
                       - getArea(D.rooms[i])
    IN ChestLoop(D, SortByKey([i \in 1..n |-> i], Priority), 1)

----------------------------------------------------------------------------
(* placeCreatures *)

\* shuffleArray: the passes i = hi down to lo of the Fisher-Yates loop
\* (0-based i as in the code); st = [arr, rng]
ShuffleStep(st, i) ==
    LET r == Random(st.rng)
        j == FloorMul(r, i + 1)
    IN [arr |-> [st.arr EXCEPT ![i + 1] = st.arr[j + 1], ![j + 1] = st.arr[i + 1]],
        rng |-> r]

RECURSIVE ShuffleRange(_, _, _)
ShuffleRange(st, hi, lo) ==
    IF Len(st.arr) = 0 \/ hi < lo THEN st
    ELSE IF hi = lo THEN ShuffleStep(st, hi)
    ELSE ShuffleRange(ShuffleRange(st, hi, ((lo + hi) \div 2) + 1), (lo + hi) \div 2, lo)

shuffleArray(array, s) == ShuffleRange([arr |-> array, rng |-> s], Len(array) - 1, 1)

\* the subsequence of the elements that pass Test
Filter(a, Test(_)) ==
    LET keep == {i \in 1..Len(a) : Test(a[i])}
        Index(i) == i
        at == SeqByKey(keep, Index)
    IN [k \in 1..Len(at) |-> a[at[k]]]

\* validTiles.splice(validTiles.indexOf(tile), 1)
Remove(a, e) == RemoveAt(a, CHOOSE i \in 1..Len(a) : a[i] = e /\ \A j \in 1..(i - 1) : a[j] # e)

TotalCreatures(n) == (3 * n + 1) \div 2

\* Math.ceil(totalCreatures * 0.7 / rooms.length)
RoomCreaturesToPlace(n) == (7 * TotalCreatures(n) + 10 * n - 1) \div (10 * n)

\* one pass of the inner loop for room number i; st = [D, validTiles, creaturesPlaced]
RoomCreatureStep(st, i) ==
    LET InRoom(t) == containsPoint(st.D.rooms[i], t[1], t[2])
        validRoomTiles == Filter(st.validTiles, InRoom)
        r == Random(st.D.rng)
        tile == validRoomTiles[FloorMul(r, Len(validRoomTiles)) + 1]
    IN IF ~(st.creaturesPlaced < TotalCreatures(Len(st.D.rooms))) \/ Len(validRoomTiles) = 0
       THEN st
       ELSE [D |-> placeCreatureAt([st.D EXCEPT !.rng = r], tile[1], tile[2], i),
             validTiles |-> Remove(st.validTiles, tile),
             creaturesPlaced |-> st.creaturesPlaced + 1]

\* passes lo..hi of the room loops: pass k is for room k \div per + 1
RECURSIVE RoomCreatureRange(_, _, _, _)
RoomCreatureRange(st, per, lo, hi) ==
    IF st.D.threw \/ lo > hi THEN st
    ELSE IF lo = hi THEN RoomCreatureStep(st, (lo \div per) + 1)
    ELSE RoomCreatureRange(RoomCreatureRange(st, per, lo, (lo + hi) \div 2), per,
                           ((lo + hi) \div 2) + 1, hi)

\* the loop placing the remaining creatures in corridors
RECURSIVE CorridorCreatureLoop(_)
CorridorCreatureLoop(st) ==
    LET NotInRoom(t) == ~isPartOfRoom(st.D, t[1], t[2])
        corridorTiles == Filter(st.validTiles, NotInRoom)
        r == Random(st.D.rng)
        tile == corridorTiles[FloorMul(r, Len(corridorTiles)) + 1]
    IN IF \/ st.D.threw
          \/ ~(st.creaturesPlaced < TotalCreatures(Len(st.D.rooms)) /\ Len(st.validTiles) > 0)
          \/ Len(corridorTiles) = 0
       THEN st
       ELSE CorridorCreatureLoop(
                [D |-> placeCreatureAt([st.D EXCEPT !.rng = r], tile[1], tile[2], 0),
                 validTiles |-> Remove(st.validTiles, tile),
                 creaturesPlaced |-> st.creaturesPlaced + 1])

placeCreatures(D) ==
    LET n == Len(D.rooms)
        valid == {p \in Positions(D.width, D.height) :
                    /\ isValidPosition(D.width, D.height, p[1], p[2])
                    /\ D.tiles[p].type = "floor"
                    /\ D.tiles[p].item.kind = "none"}
        ScanOrder(p) == p[1] * D.height + p[2]
        sh == shuffleArray(SeqByKey(valid, ScanOrder), D.rng)
        st0 == [D |-> [D EXCEPT !.creatures = <<>>, !.rng = sh.rng],
                validTiles |-> sh.arr, creaturesPlaced |-> 0]
        st1 == IF n = 0 THEN st0
               ELSE RoomCreatureRange(st0, RoomCreaturesToPlace(n), 0,
                                      n * RoomCreaturesToPlace(n) - 1)
    IN CorridorCreatureLoop(st1).D

----------------------------------------------------------------------------
(* findBestStartRoom, findBestStairsRoom *)

\* Math.floor of the square root
Isqrt(v) == CHOOSE n \in 0..(v + 1) : n * n <= v /\ v < (n + 1) * (n + 1)

\* the sign of a + sqrt(x) - sqrt(y) for a >= 0, by squaring
SignNonNeg(a, x, y) ==
    LET e == a * a + x - y
        f == 4 * a * a * x - e * e
    IN IF e > 0 THEN 1
       ELSE IF e = 0 THEN (IF a > 0 /\ x > 0 THEN 1 ELSE 0)
       ELSE IF f > 0 THEN 1 ELSE IF f = 0 THEN 0 ELSE -1

\* the sign of a + sqrt(x) - sqrt(y), a an integer, x and y naturals: decided
\* from the integer parts of the roots when they differ enough, else exactly
SignSum(a, x, y) ==
    LET approx == a + Isqrt(x) - Isqrt(y)
    IN IF approx >= 2 THEN 1
       ELSE IF approx <= -2 THEN -1
       ELSE IF a >= 0 THEN SignNonNeg(a, x, y)
       ELSE -SignNonNeg(-a, y, x)

\* 20 * score of findBestStartRoom is StartArea - sqrt(StartDist)
StartArea(D, i) == (IF isLockedRoom(D, i) THEN 4 ELSE 20) * getArea(D.rooms[i])

StartDist(D, i) ==
    LET ex == D.width - (2 * D.rooms[i].x + D.rooms[i].width)
        ey == D.height - (2 * D.rooms[i].y + D.rooms[i].height)
    IN 25 * (ex * ex + ey * ey)

\* the comparison of the areas alone, the distance to the center left out
AreaCompare(D, i, j) == SignSum(StartArea(D, i) - StartArea(D, j), 0, 0)

\* the sign of score(i) - score(j)
StartCompare(D, i, j) ==
    SignSum(StartArea(D, i) - StartArea(D, j), StartDist(D, j), StartDist(D, i))

\* roomsWithScores sorted by score, highest first (a stable sort), element 0:
\* the first room with the highest score; 0 when there is no room
findBestStartRoom(D) ==
    IF Len(D.rooms) = 0 THEN 0
    ELSE CHOOSE i \in 1..Len(D.rooms) :
            /\ \A j \in 1..Len(D.rooms) : StartCompare(D, i, j) >= 0
            /\ \A j \in 1..(i - 1) : StartCompare(D, i, j) > 0

\* 10 * score of findBestStairsRoom is getArea + sqrt(StairsDist)
StairsDist(D, startRoom, i) ==
    LET ex == (2 * D.rooms[startRoom].x + D.rooms[startRoom].width)
              - (2 * D.rooms[i].x + D.rooms[i].width)
        ey == (2 * D.rooms[startRoom].y + D.rooms[startRoom].height)
              - (2 * D.rooms[i].y + D.rooms[i].height)
    IN 25 * (ex * ex + ey * ey)

StairsCompare(D, startRoom, i, j) ==
    SignSum(getArea(D.rooms[i]) - getArea(D.rooms[j]),
            StairsDist(D, startRoom, i), StairsDist(D, startRoom, j))

findBestStairsRoom(D, startRoom) ==
    CHOOSE i \in 1..Len(D.rooms) :
        /\ \A j \in 1..Len(D.rooms) : StairsCompare(D, startRoom, i, j) >= 0
        /\ \A j \in 1..(i - 1) : StairsCompare(D, startRoom, i, j) > 0

----------------------------------------------------------------------------
(* buildAccessibilityGraph, findAccessibleRooms *)

\* graph.get(k): the neighbours pushed for room k, in the order of the pushes.
\* A push pair is made for an unlocked door at p, a direction d and a room i
\* other than the door's room that contains the floor tile next to p.
buildAccessibilityGraph(D) ==
    LET n == Len(D.rooms)
        pushes == {e \in Positions(D.width, D.height) \X (1..4) \X (1..n) :
                     LET nx == e[1][1] + Directions[e[2]].dx
                         ny == e[1][2] + Directions[e[2]].dy
                     IN /\ D.tiles[e[1]].type = "door"
                        /\ ~D.tiles[e[1]].locked
                        /\ isValidPosition(D.width, D.height, nx, ny)
                        /\ D.tiles[<<nx, ny>>].type = "floor"
                        /\ containsPoint(D.rooms[e[3]], nx, ny)
                        /\ e[3] # D.tiles[e[1]].room}
        Order(e) == ((e[1][1] * D.height + e[1][2]) * 4 + (e[2] - 1)) * n + (e[3] - 1)
        inOrder == SeqByKey(pushes, Order)
        DoorRoom(e) == D.tiles[e[1]].room
    IN [k \in 1..n |->
          LET Touches(e) == DoorRoom(e) = k \/ e[3] = k
              mine == Filter(inOrder, Touches)
          IN [m \in 1..Len(mine) |->
                IF DoorRoom(mine[m]) = k THEN mine[m][3] ELSE DoorRoom(mine[m])]]

InSeq(e, a) == \E i \in 1..Len(a) : a[i] = e

\* append to visited the elements of ns not yet in it, in order
RECURSIVE Visit(_, _, _)
Visit(visited, ns, i) ==
    IF i > Len(ns) THEN visited
    ELSE Visit(IF InSeq(ns[i], visited) THEN visited ELSE Append(visited, ns[i]), ns, i + 1)

\* a search that stops after the neighbours of the room at head
DirectOnly(graph, visited, head) == Visit(visited, graph[visited[head]], 1)

\* the breadth-first loop: visited is the Set in insertion order, the queue is
\* its part from position head on
RECURSIVE BreadthFirst(_, _, _)
BreadthFirst(graph, visited, head) ==
    IF head > Len(visited) THEN visited
    ELSE BreadthFirst(graph, Visit(visited, graph[visited[head]], 1), head + 1)

findAccessibleRooms(startRoomIndex, graph) == BreadthFirst(graph, <<startRoomIndex>>, 1)

----------------------------------------------------------------------------
(* placeKeys *)

\* a key item; its keyId is door_x_y or chest_x_y
DecimalDigits == <<"0", "1", "2", "3", "4", "5", "6", "7", "8", "9">>

\* `${n}` for a number n >= 0: its decimal digits
RECURSIVE NumberToString(_)
NumberToString(n) ==
    IF n < 10 THEN <<DecimalDigits[n + 1]>>
    ELSE NumberToString(n \div 10) \o <<DecimalDigits[(n % 10) + 1]>>

\* an identifier made of the prefix and the column only
LockIdOfColumn(prefix, x, y) == <<prefix, "_">> \o NumberToString(x)

\* `door_${x}_${y}` and `chest_${x}_${y}`, as the sequence of their parts
LockId(prefix, x, y) == <<prefix, "_">> \o NumberToString(x) \o <<"_">> \o NumberToString(y)

\* new Item(this, "doorKey") or new Item(this, "chestKey") with its keyId;
\* a and b are the position of the lock it was made for
KeyItem(type, x, y) ==
    [kind |-> type, a |-> x, b |-> y,
     keyId |-> LockId(IF type = "doorKey" THEN "door" ELSE "chest", x, y)]

IsKey(item) == item.kind \in {"doorKey", "chestKey"}

\* loot.some(item => item.type === "doorKey" || item.type === "chestKey")
HasKey(holder) == Len(holder.keys) > 0

KeyOnFloor(D, p) ==
    /\ isValidPosition(D.width, D.height, p[1], p[2])
    /\ D.tiles[p].type = "floor"
    /\ IsKey(D.tiles[p].item)

roomHasKeyOnFloor(D, i) ==
    \E p \in Positions(D.width, D.height) :
        containsPoint(D.rooms[i], p[1], p[2]) /\ KeyOnFloor(D, p)

getRoomsWithKeys(D) ==
    {i \in 1..Len(D.rooms) :
        \/ \E c \in 1..Len(D.creatures) :
              HasKey(D.creatures[c])
              /\ getRoomForPosition(D, D.creatures[c].x, D.creatures[c].y) = i
        \/ \E c \in 1..Len(D.chests) :
              HasKey(D.chests[c])
              /\ getRoomForPosition(D, D.chests[c].x, D.chests[c].y) = i
        \/ \E p \in Positions(D.width, D.height) :
              KeyOnFloor(D, p) /\ getRoomForPosition(D, p[1], p[2]) = i}

\* a tile a key may be laid on
FreeFloor(D, x, y) ==
    /\ isValidPosition(D.width, D.height, x, y)
    /\ D.tiles[<<x, y>>].type = "floor"
    /\ D.tiles[<<x, y>>].item.kind = "none"
    /\ D.tiles[<<x, y>>].creature = 0

\* the ten attempts in a room: attempt k draws x then y
FloorAttempts == 10

TryFloor(D, i, key) ==
    LET X(k) == D.rooms[i].x + 1 + FloorMul(Skip(D.rng, 2 * k - 1), D.rooms[i].width - 2)
        Y(k) == D.rooms[i].y + 1 + FloorMul(Skip(D.rng, 2 * k), D.rooms[i].height - 2)
        Laid(first) ==
            [ok |-> TRUE,
             D |-> [D EXCEPT !.rng = Skip(D.rng, 2 * first),
                             !.tiles[<<X(first), Y(first)>>].item = key]]
        Among(good) ==
            IF good = {}
            THEN [ok |-> FALSE, D |-> [D EXCEPT !.rng = Skip(D.rng, 2 * FloorAttempts)]]
            ELSE Laid(CHOOSE k \in good : \A j \in good : k <= j)
    IN Among({k \in 1..FloorAttempts : FreeFloor(D, X(k), Y(k))})

\* "for (const room of list)": rooms list[k], list[k + 1], ... until a key is laid
RECURSIVE FloorLoop(_, _, _, _, _)
FloorLoop(D, key, list, k, skipKeyed) ==
    LET Tried(t) == IF t.ok THEN t ELSE FloorLoop(t.D, key, list, k + 1, skipKeyed)
    IN IF D.threw \/ k > Len(list) THEN [ok |-> FALSE, D |-> D]
       ELSE IF skipKeyed /\ roomHasKeyOnFloor(D, list[k])
       THEN FloorLoop(D, key, list, k + 1, skipKeyed)
       ELSE Tried(TryFloor(D, list[k], key))

\* a draw after which nobody holds the key
KeepKey(D, cands, key) == [D EXCEPT !.rng = Random(D.rng)]

\* holder.addLoot(key) for a random element of the candidates (registry indices)
GiveToCreature(D, cands, key) ==
    LET r == Random(D.rng)
    IN [D EXCEPT !.rng = r,
                 !.creatures[cands[FloorMul(r, Len(cands)) + 1]].keys = Append(@, key)]

GiveToChest(D, cands, key) ==
    LET r == Random(D.rng)
    IN [D EXCEPT !.rng = r,
                 !.chests[cands[FloorMul(r, Len(cands)) + 1]].keys = Append(@, key)]

Indices(a) == [i \in 1..Len(a) |-> i]

placeKeyRandomly(D, key) ==
    LET ScanOrder(p) == p[1] * D.height + p[2]
        OnTile(validTiles, r) ==
            IF Len(validTiles) > 0
            THEN [ok |-> TRUE,
                  D |-> [D EXCEPT !.rng = r,
                                  !.tiles[validTiles[FloorMul(r, Len(validTiles)) + 1]].item = key]]
            ELSE [ok |-> FALSE, D |-> D]
    IN IF Len(D.creatures) > 0
       THEN [ok |-> TRUE, D |-> GiveToCreature(D, Indices(D.creatures), key)]
       ELSE IF Len(D.chests) > 0
       THEN [ok |-> TRUE, D |-> GiveToChest(D, Indices(D.chests), key)]
       ELSE OnTile(SeqByKey({p \in Positions(D.width, D.height) : FreeFloor(D, p[1], p[2])},
                            ScanOrder),
                   Random(D.rng))

\* The rooms without a key, then the rooms other than the avoided one, then
\* the creatures and chests without a key.
placeKeyConstrainedRandomly(D, key, avoidRoomIndex) ==
    LET NotAvoided(i) == i # avoidRoomIndex
        Shuffled(D1, sh, skipKeyed) ==
            FloorLoop([D1 EXCEPT !.rng = sh.rng], key, sh.arr, 1, skipKeyed)
        OnFloor(D1, list, skipKeyed) ==
            IF Len(list) > 0
            THEN Shuffled(D1, shuffleArray(list, D1.rng), skipKeyed)
            ELSE [ok |-> FALSE, D |-> D1]
        Give(D2, validCreatures, validChests) ==
            IF Len(validCreatures) > 0
            THEN [ok |-> TRUE, D |-> GiveToCreature(D2, validCreatures, key)]
            ELSE IF Len(validChests) > 0
            THEN [ok |-> TRUE, D |-> GiveToChest(D2, validChests, key)]
            ELSE [ok |-> FALSE, D |-> D2]
        Holders(D2) ==
            LET NoKeyCreature(c) == ~HasKey(D2.creatures[c])
                NoKeyChest(c) == ~D2.chests[c].locked /\ ~HasKey(D2.chests[c])
            IN Give(D2, Filter(Indices(D2.creatures), NoKeyCreature),
                    Filter(Indices(D2.chests), NoKeyChest))
        AfterSecond(second) == IF second.ok THEN second ELSE Holders(second.D)
        AfterFirst(first) ==
            IF first.ok THEN first
            ELSE OnFloor(first.D, Filter(Indices(D.rooms), NotAvoided), TRUE)
        Keyed(roomsWithKeys) ==
            LET Valid(i) == i # avoidRoomIndex /\ i \notin roomsWithKeys
            IN OnFloor(D, Filter(Indices(D.rooms), Valid), FALSE)
    IN AfterSecond(AfterFirst(Keyed(getRoomsWithKeys(D))))

\* a placement that reports success and puts the key nowhere
ReportPlaced(D, key, lock, graph, useGraph) == [ok |-> TRUE, D |-> D]

\* lock is [kind, x, y, room]; useGraph is "accessibilityGraph && !canPlaceAnywhere"
\* The steps read from the bottom: the rooms reached, those of them without a
\* key, the creatures and chests in them, then the floor.
placeKeyInAccessibleLocation(D, key, lock, graph, useGraph) ==
    LET objectRoomIndex == lock.room
        NotOwn(i) == i # objectRoomIndex
        \* shuffleArray([...accessibleRoomsList]) shuffles a copy: only its draws remain
        Place(accessibleCreatures, accessibleChests, accessibleRoomsList) ==
            IF Len(accessibleCreatures) > 0
            THEN [ok |-> TRUE, D |-> GiveToCreature(D, accessibleCreatures, key)]
            ELSE IF Len(accessibleChests) > 0
            THEN [ok |-> TRUE, D |-> GiveToChest(D, accessibleChests, key)]
            ELSE FloorLoop([D EXCEPT !.rng = Skip(D.rng, Len(accessibleRoomsList) - 1)],
                           key, accessibleRoomsList, 1, TRUE)
        Candidates(accessibleRooms, availableRoomIndices) ==
            LET RoomOk(i) ==
                    /\ i # 0
                    /\ InSeq(i, accessibleRooms)
                    /\ (Len(availableRoomIndices) = 0 \/ InSeq(i, availableRoomIndices))
                CreatureOk(c) ==
                    /\ ~HasKey(D.creatures[c])
                    /\ RoomOk(getRoomForPosition(D, D.creatures[c].x, D.creatures[c].y))
                ChestOk(c) ==
                    /\ ~HasKey(D.chests[c])
                    /\ ~D.chests[c].locked
                    /\ RoomOk(getRoomForPosition(D, D.chests[c].x, D.chests[c].y))
            IN Place(Filter(Indices(D.creatures), CreatureOk),
                     Filter(Indices(D.chests), ChestOk),
                     IF Len(availableRoomIndices) > 0
                     THEN availableRoomIndices ELSE accessibleRooms)
        Available(accessibleRooms, roomsWithKeys) ==
            LET NoKeyYet(i) == i \notin roomsWithKeys
            IN Candidates(accessibleRooms, Filter(accessibleRooms, NoKeyYet))
        Reached(reached) ==
            Available(IF Len(reached) = 0 THEN <<findBestStartRoom(D)>> ELSE reached,
                      getRoomsWithKeys(D))
        \* a key that found no floor goes to placeKeyConstrainedRandomly
        AfterFloor(onFloor) ==
            IF onFloor.ok THEN onFloor
            ELSE placeKeyConstrainedRandomly(onFloor.D, key, objectRoomIndex)
    IN IF objectRoomIndex = 0 THEN placeKeyRandomly(D, key)
       ELSE AfterFloor(Reached(IF useGraph
                               THEN Filter(findAccessibleRooms(objectRoomIndex, graph), NotOwn)
                               ELSE Filter(Indices(D.rooms), NotOwn)))

\* the chest object with identity id
ChestById(D, id) == D.chests[CHOOSE c \in 1..Len(D.chests) : D.chests[c].id = id]

\* lockedDoors then lockedChests, each in scan order
LockedObjects(D) ==
    LET ScanOrder(p) == p[1] * D.height + p[2]
        ds == {p \in Positions(D.width, D.height) :
                 /\ isValidPosition(D.width, D.height, p[1], p[2])
                 /\ D.tiles[p].type = "door"
                 /\ D.tiles[p].locked}
        cs == {p \in Positions(D.width, D.height) :
                 /\ isValidPosition(D.width, D.height, p[1], p[2])
                 /\ D.tiles[p].type = "floor"
                 /\ D.tiles[p].item.kind = "chest"
                 /\ ChestById(D, D.tiles[p].item.a).locked}
        lockedDoors == SeqByKey(ds, ScanOrder)
        lockedChests == SeqByKey(cs, ScanOrder)
    IN [k \in 1..Len(lockedDoors) |->
          [kind |-> "door", x |-> lockedDoors[k][1], y |-> lockedDoors[k][2],
           id |-> LockId("door", lockedDoors[k][1], lockedDoors[k][2]),
           room |-> D.tiles[lockedDoors[k]].room]]
       \o [k \in 1..Len(lockedChests) |->
          [kind |-> "chest", x |-> lockedChests[k][1], y |-> lockedChests[k][2],
           id |-> LockId("chest", lockedChests[k][1], lockedChests[k][2]),
           room |-> getRoomForPosition(D, lockedChests[k][1], lockedChests[k][2])]]

\* the two loops of placeKeys from the k-th locked object on; keyLog records
\* what placeKeyInAccessibleLocation returned for each
RECURSIVE KeyLoop(_, _, _, _)
KeyLoop(D, locks, graph, k) ==
    LET Placed(lock, res) ==
            KeyLoop([res.D EXCEPT !.keyLog = Append(@, [lock |-> lock, placed |-> res.ok])],
                    locks, graph, k + 1)
    IN IF D.threw \/ k > Len(locks) THEN D
       ELSE Placed(locks[k],
                   placeKeyInAccessibleLocation(
                       D,
                       KeyItem(IF locks[k].kind = "door" THEN "doorKey" ELSE "chestKey",
                               locks[k].x, locks[k].y),
                       locks[k], graph, locks[k].kind = "door"))

placeKeys(D) == KeyLoop(D, LockedObjects(D), buildAccessibilityGraph(D), 1)

----------------------------------------------------------------------------
(* placePlayerAndStairs *)

\* the tile after "type = 'stairs'" and the replacement of obj
StairsTile == [WallTile EXCEPT !.type = "stairs"]

\* without rooms roomsWithScores[0] is undefined and reading .room throws
placePlayerAndStairs(D) ==
    LET Put(player, down) ==
            [D EXCEPT !.playerStart = <<player.x, player.y>>,
                      !.stairs = <<down.x, down.y>>,
                      !.tiles[<<down.x, down.y>>] = StairsTile]
        From(startRoom) ==
            IF startRoom = 0 THEN [D EXCEPT !.threw = TRUE]
            ELSE Put(getCenter(D.rooms[startRoom]),
                     getCenter(D.rooms[findBestStairsRoom(D, startRoom)]))
    IN From(findBestStartRoom(D))

----------------------------------------------------------------------------
(* The aggregate as a record, and the steps of generateDungeon *)

\* the calls of generateDungeon in the order of lines 149-156, placeKeys
\* followed by the call it makes at line 2454
Stages == <<"placeRooms", "placeCorridors", "addCorridorVariety", "placeDoors",
            "placeChests", "placeCreatures", "placeKeys", "buildAccessibilityGraph",
            "placePlayerAndStairs">>

\* the fields of the Dungeon object the stages read and write
Cur == [width |-> width, height |-> height, rng |-> rng, tiles |-> tiles,
        rooms |-> rooms, corridors |-> corridors, chests |-> chests,
        creatures |-> creatures, doors |-> doors, playerStart |-> playerStart,
        stairs |-> stairs, nextId |-> nextId, keyLog |-> keyLog, run |-> calls,
        threw |-> FALSE, hung |-> FALSE]

Install(D) ==
    /\ rng' = D.rng
    /\ tiles' = D.tiles
    /\ rooms' = D.rooms
    /\ corridors' = D.corridors
    /\ chests' = D.chests
    /\ creatures' = D.creatures
    /\ doors' = D.doors
    /\ playerStart' = D.playerStart
    /\ stairs' = D.stairs
    /\ nextId' = D.nextId
    /\ keyLog' = D.keyLog

\* a constructor that takes its seed from Math.random() whatever it is given
RandomSeed(seedArg, m) == m

\* constructor(width, height, seed = null): m is Math.floor(Math.random() * 1000000)
ConstructorSeed(seedArg, m) == IF seedArg # Null THEN seedArg ELSE m

createRNG(s) == s

\* no call of random() or randomInt() from outside yet
NoDraw == [op |-> "none", n |-> 0]

Construct(w, h, seedArg, m) ==
    /\ width = w
    /\ height = h
    /\ seed = ConstructorSeed(seedArg, m)
    /\ rng = createRNG(ConstructorSeed(seedArg, m))
    /\ tiles = <<>>
    /\ rooms = <<>>
    /\ corridors = <<>>
    /\ chests = <<>>
    /\ creatures = <<>>
    /\ doors = <<>>
    /\ playerStart = NoPosition
    /\ stairs = NoPosition
    /\ nextId = 1
    /\ keyLog = <<>>
    /\ pc = "idle"
    /\ calls = 0
    /\ trace = <<>>
    /\ returned = Null
    /\ args = <<>>
    /\ drawn = NoDraw

\* the grids and seeds aggregates are constructed with, and the seeds that
\* are passed to generateDungeon
Dims == {<<1, 1>>, <<11, 11>>, <<24, 13>>}
NewSeeds == 0..MaxSeed
Seeds == NewSeeds \cup {11, 18, 222, 5478}

Init ==
    /\ \E d \in Dims, seedArg \in Seeds \cup {Null}, m \in Seeds :
          Construct(d[1], d[2], seedArg, m)
    /\ agg = 1
    /\ prev = Null

\* what an aggregate shows after generation
Output ==
    [width |-> width, height |-> height, seed |-> seed, rooms |-> rooms,
     tiles |-> tiles, doors |-> doors, chests |-> chests, creatures |-> creatures,
     playerStart |-> playerStart, stairs |-> stairs, pc |-> pc,
     returned |-> returned, calls |-> calls, args |-> args]

\* the first aggregate is put aside and a second one is constructed with the
\* same dimensions and the seed the first one holds (the seed its last call
\* returned, if it returned)
ConstructSecond ==
    /\ agg = 1
    /\ pc \in {"done", "threw"}
    /\ prev' = Output
    /\ agg' = 2
    /\ \E m \in Seeds :
          /\ seed' = ConstructorSeed(seed, m)
          /\ rng' = createRNG(ConstructorSeed(seed, m))
    /\ tiles' = <<>>
    /\ rooms' = <<>>
    /\ corridors' = <<>>
    /\ chests' = <<>>
    /\ creatures' = <<>>
    /\ doors' = <<>>
    /\ playerStart' = NoPosition
    /\ stairs' = NoPosition
    /\ nextId' = 1
    /\ keyLog' = <<>>
    /\ pc' = "idle"
    /\ calls' = 0
    /\ trace' = <<>>
    /\ returned' = Null
    /\ args' = <<>>
    /\ UNCHANGED <<width, height, drawn>>

\* generateDungeon(newSeed = null), lines 129-147: reseed, clear, fill with walls
\* (the second aggregate receives one call, without argument)
GenerateDungeon(newSeed) ==
    /\ pc \in {"idle", "done", "threw"}
    /\ calls < (IF agg = 1 THEN MaxCalls ELSE 1)
    /\ agg = 2 => newSeed = Null
    /\ seed' = IF newSeed # Null THEN newSeed ELSE seed
    /\ rng' = IF newSeed # Null THEN createRNG(newSeed) ELSE rng
    /\ tiles' = [p \in Positions(width, height) |-> WallTile]
    /\ rooms' = <<>>
    /\ corridors' = <<>>
    /\ keyLog' = <<>>
    /\ pc' = "placeRooms"
    /\ calls' = calls + 1
    /\ trace' = <<>>
    /\ args' = Append(args, newSeed)
    /\ UNCHANGED <<width, height, chests, creatures, doors, playerStart, stairs,
                   nextId, returned, agg, prev, drawn>>

\* one stage of the pipeline, lines 149-156
Stage(name, D, next) ==
    /\ pc = name
    /\ Install(D)
    /\ pc' = IF D.hung THEN "hung" ELSE next
    /\ trace' = trace \o (IF name = "placeKeys"
                           THEN <<name, "buildAccessibilityGraph">>
                           ELSE <<name>>)
    /\ UNCHANGED <<width, height, seed, calls, returned, args, agg, prev, drawn>>

PlaceRooms == Stage("placeRooms", placeRooms(Cur), "placeCorridors")

PlaceCorridors == Stage("placeCorridors", placeCorridors(Cur), "addCorridorVariety")

AddCorridorVariety == Stage("addCorridorVariety", addCorridorVariety(Cur), "placeDoors")

PlaceDoors == Stage("placeDoors", placeDoors(Cur), "placeChests")

PlaceChests == Stage("placeChests", placeChests(Cur), "placeCreatures")

\* a creature stage that hands back to the chest stage
BackToChests == Stage("placeCreatures", placeCreatures(Cur), "placeChests")

PlaceCreatures == Stage("placeCreatures", placeCreatures(Cur), "placeKeys")

PlaceKeys == Stage("placeKeys", placeKeys(Cur), "placePlayerAndStairs")

\* the last stage and "return this.seed"; a TypeError leaves generateDungeon
\* without a return value
PlacePlayerAndStairs ==
    LET D == placePlayerAndStairs(Cur)
    IN /\ pc = "placePlayerAndStairs"
       /\ Install(D)
       /\ pc' = IF D.threw THEN "threw" ELSE "done"
       /\ returned' = IF D.threw THEN returned ELSE seed
       /\ trace' = Append(trace, "placePlayerAndStairs")
       /\ UNCHANGED <<width, height, seed, calls, args, agg, prev, drawn>>

Next ==
    \/ \E newSeed \in NewSeeds \cup {Null} : GenerateDungeon(newSeed)
    \/ ConstructSecond
    \/ PlaceRooms
    \/ PlaceCorridors
    \/ AddCorridorVariety
    \/ PlaceDoors
    \/ PlaceChests
    \/ PlaceCreatures
    \/ PlaceKeys
    \/ PlacePlayerAndStairs

Spec == Init /\ [][Next]_vars

----------------------------------------------------------------------------
(* placeKeys on a dungeon of one room that holds one locked chest and no
   creature: the dungeon is built by the stages up to placeChests, its
   creatures registry is left empty, and placeKeys and placePlayerAndStairs
   are applied to it *)

MaxLoneSeed == 59
LoneDims == {<<8, 8>>, <<9, 8>>, <<8, 9>>, <<10, 9>>}
LoneSeeds == 0..MaxLoneSeed

Blank(w, h, s) ==
    [width |-> w, height |-> h, rng |-> createRNG(s),
     tiles |-> [p \in Positions(w, h) |-> WallTile],
     rooms |-> <<>>, corridors |-> <<>>, chests |-> <<>>, creatures |-> <<>>,
     doors |-> <<>>, playerStart |-> NoPosition, stairs |-> NoPosition,
     nextId |-> 1, keyLog |-> <<>>, run |-> 1, threw |-> FALSE, hung |-> FALSE]

LoneInit ==
    \E d \in LoneDims, s \in LoneSeeds :
       LET From(D) ==
               /\ Len(D.rooms) = 1
               /\ Len(D.chests) = 1
               /\ D.chests[1].locked
               /\ width = d[1]
               /\ height = d[2]
               /\ seed = s
               /\ rng = D.rng
               /\ tiles = D.tiles
               /\ rooms = D.rooms
               /\ corridors = D.corridors
               /\ chests = D.chests
               /\ creatures = <<>>
               /\ doors = D.doors
               /\ playerStart = NoPosition
               /\ stairs = NoPosition
               /\ nextId = D.nextId
               /\ keyLog = <<>>
               /\ pc = "placeKeys"
               /\ calls = 1
               /\ trace = <<>>
               /\ returned = Null
               /\ args = <<Null>>
               /\ agg = 1
               /\ prev = Null
               /\ drawn = NoDraw
       IN From(placeChests(placeDoors(addCorridorVariety(placeCorridors(
               placeRooms(Blank(d[1], d[2], s)))))))

LoneNext == PlaceKeys \/ PlacePlayerAndStairs

LoneSpec == LoneInit /\ [][LoneNext]_vars

----------------------------------------------------------------------------
(* The stages that lay out rooms, corridors and doors, on grids that hold
   from one to nine rooms: one generateDungeon() call followed up to placeDoors *)

MaxRouteSeed == 19
RouteDims == {<<24, 13>>, <<30, 20>>, <<40, 24>>}

\* 40x24 with seed 680 places two doors side by side
RouteSeeds == (0..MaxRouteSeed) \cup {680}

RouteInit ==
    /\ \E d \in RouteDims, s \in RouteSeeds : Construct(d[1], d[2], s, s)
    /\ agg = 1
    /\ prev = Null

RouteNext ==
    \/ (pc = "idle" /\ GenerateDungeon(Null))
    \/ PlaceRooms
    \/ PlaceCorridors
    \/ AddCorridorVariety
    \/ PlaceDoors

RouteSpec == RouteInit /\ [][RouteNext]_vars

----------------------------------------------------------------------------
(* The generator by itself: a dungeon is constructed with a seed or reseeded
   by generateDungeon(newSeed), and random() and randomInt(min, max) are
   called on it *)

MaxRngSeed == 8
MaxDraws == 3
RngSeeds == ((-MaxRngSeed..MaxRngSeed) \ {Null}) \cup {-233280, -1000, 233279, 999999}
Ranges == {<<0, 1>>, <<0, 10>>, <<-2, 3>>, <<3, 7>>}

RngInit ==
    /\ \E s \in RngSeeds : Construct(24, 13, s, s)
    /\ agg = 1
    /\ prev = Null

\* random() (lines 206-208, 189-192): state and after are _seed before and
\* after the call, value is the numerator of the number returned, over Modulus
CallRandom ==
    /\ drawn.n < MaxDraws
    /\ rng' = Random(rng)
    /\ drawn' = [op |-> "random", n |-> drawn.n + 1, state |-> rng,
                  after |-> Random(rng), value |-> Random(rng)]
    /\ UNCHANGED <<width, height, seed, tiles, rooms, corridors, chests, creatures,
                   doors, playerStart, stairs, nextId, keyLog, pc, calls, trace,
                   returned, args, agg, prev>>

\* randomInt(min, max) (lines 216-218, 194-196)
CallRandomInt(min, max) ==
    /\ drawn.n < MaxDraws
    /\ rng' = Random(rng)
    /\ drawn' = [op |-> "randomInt", n |-> drawn.n + 1, state |-> rng,
                  after |-> Random(rng), min |-> min, max |-> max,
                  value |-> FloorMul(Random(rng), max - min) + min]
    /\ UNCHANGED <<width, height, seed, tiles, rooms, corridors, chests, creatures,
                   doors, playerStart, stairs, nextId, keyLog, pc, calls, trace,
                   returned, args, agg, prev>>

RngNext ==
    \/ \E newSeed \in RngSeeds : pc = "idle" /\ GenerateDungeon(newSeed)
    \/ CallRandom
    \/ \E r \in Ranges : CallRandomInt(r[1], r[2])

RngSpec == RngInit /\ [][RngNext]_vars

----------------------------------------------------------------------------
(* The breadth-first search by itself: findAccessibleRooms(start, graph) is
   called on a dungeon with a graph of up to MaxNodes rooms and MaxEdges
   directed edges, self-edges included; twice says that every neighbour is
   pushed two times, as buildAccessibilityGraph does for a door seen from two
   sides *)

MaxNodes == 3
MaxEdges == 4

\* graph.get(a) for the edge set E: the neighbours of a in ascending order,
\* each of them two times when twice holds
NeighbourList(E, a, twice) ==
    LET Index(b) == b
        once == SeqByKey({b \in 1..MaxNodes : <<a, b>> \in E}, Index)
    IN IF twice THEN [k \in 1..(2 * Len(once)) |-> once[(k + 1) \div 2]] ELSE once

GraphOf(n, E, twice) == [a \in 1..n |-> NeighbourList(E, a, twice)]

GraphInit ==
    /\ Construct(24, 13, 0, 0)
    /\ agg = 1
    /\ prev = Null

\* findAccessibleRooms(startRoomIndex, graph) (lines 491-508): value is the Set
\* returned, in insertion order, after is the graph when the call returns
CallFindAccessibleRooms(startRoomIndex, graph) ==
    /\ drawn = NoDraw
    /\ drawn' = [op |-> "findAccessibleRooms", n |-> 1, start |-> startRoomIndex,
                  graph |-> graph, after |-> graph,
                  value |-> findAccessibleRooms(startRoomIndex, graph)]
    /\ UNCHANGED <<width, height, seed, rng, tiles, rooms, corridors, chests, creatures,
                   doors, playerStart, stairs, nextId, keyLog, pc, calls, trace,
                   returned, args, agg, prev>>

\* one call on each dungeon
GraphNext ==
    /\ drawn = NoDraw
    /\ \E n \in 1..MaxNodes, twice \in BOOLEAN :
          \E E \in {F \in SUBSET ((1..n) \X (1..n)) : Cardinality(F) <= MaxEdges} :
              \E start \in 1..n : CallFindAccessibleRooms(start, GraphOf(n, E, twice))

GraphSpec == GraphInit /\ [][GraphNext]_vars

----------------------------------------------------------------------------
(* One generateDungeon() on a fresh aggregate, over more grids and seeds.
   36x16 with seed 481 has four rooms, the last of them without creatures;
   35x21 with seed 5861 has a 14x11 room and a 4x8 room next to it *)

MaxFreshSeed == 5
FreshDims == {<<24, 13>>, <<36, 16>>}
FreshSeeds == (0..MaxFreshSeed) \cup {481}
FreshInputs == (FreshDims \X FreshSeeds) \cup {<<(<<35, 21>>), 5861>>}

FreshInit ==
    /\ \E in \in FreshInputs : Construct(in[1][1], in[1][2], in[2], in[2])
    /\ agg = 1
    /\ prev = Null

FreshNext ==
    \/ (pc = "idle" /\ GenerateDungeon(Null))
    \/ PlaceRooms
    \/ PlaceCorridors
    \/ AddCorridorVariety
    \/ PlaceDoors
    \/ PlaceChests
    \/ PlaceCreatures
    \/ PlaceKeys
    \/ PlacePlayerAndStairs

FreshSpec == FreshInit /\ [][FreshNext]_vars

----------------------------------------------------------------------------
(* Properties of the generated dungeon *)

\* generateDungeon has returned
Done == pc = "done"

Grid == Positions(width, height)

\* the positions of S and those one step north, east, south or west of a
\* position of S, within P
Expand(S, P) ==
    {q \in P : \/ q \in S
               \/ \E k \in 1..4 :
                     <<q[1] + Directions[k].dx, q[2] + Directions[k].dy>> \in S}

\* the positions reached from S by steps inside P
RECURSIVE Flood(_, _)
Flood(S, P) ==
    LET Grown(N) == IF N = S THEN S ELSE Flood(N, P)
    IN Grown(Expand(Expand(Expand(S, P), P), P))

LockedDoors == {p \in Grid : tiles[p].type = "door" /\ tiles[p].locked}

LockedChests ==
    {p \in Grid : /\ tiles[p].type = "floor"
                  /\ tiles[p].item.kind = "chest"
                  /\ ChestById(Cur, tiles[p].item.a).locked}

\* where the copies of a key are: on floor tiles, with creatures, in chests
KeyOnTiles(key) == {q \in Grid : tiles[q].type = "floor" /\ tiles[q].item = key}
KeyWithCreatures(key) == {c \in 1..Len(creatures) : InSeq(key, creatures[c].keys)}
KeyInChests(key) == {c \in 1..Len(chests) : InSeq(key, chests[c].keys)}

KeyLocations(key) ==
    KeyOnTiles(key)
    \cup {<<creatures[c].x, creatures[c].y>> : c \in KeyWithCreatures(key)}
    \cup {<<chests[c].x, chests[c].y>> : c \in KeyInChests(key)}

\* tiles one can stand on
Walkable == {q \in Grid : tiles[q].type \in {"floor", "door", "stairs"}}

\* the rooms the breadth-first search over the accessibility graph reaches
\* from room i (none from outside the rooms)
GraphReach(i) ==
    IF i = 0 THEN <<>> ELSE findAccessibleRooms(i, buildAccessibilityGraph(Cur))

\* the key of the locked door at p rests at q, and q is reached without the door
KeyReachable(p, q) ==
    \/ q \in Flood({playerStart} \cap (Walkable \ {p}), Walkable \ {p})
    \/ /\ getRoomForPosition(Cur, q[1], q[2]) # 0
       /\ \/ InSeq(getRoomForPosition(Cur, q[1], q[2]), GraphReach(tiles[p].room))
          \/ InSeq(getRoomForPosition(Cur, q[1], q[2]),
                   GraphReach(getRoomForPosition(Cur, playerStart[1], playerStart[2])))

\* C1 (solvability): after generateDungeon has returned, for every locked door
\* each location of its key (floor tile, creature or chest holding it) is
\* reached by the breadth-first search over the accessibility graph, which
\* leaves locked doors out (from the door's room or from the player's room),
\* or is reached from the player start by steps over floor, door and stairs
\* tiles other than that door.
C1_Solvability ==
    Done => \A p \in LockedDoors :
               \A q \in KeyLocations(KeyItem("doorKey", p[1], p[2])) : KeyReachable(p, q)

\* the tiles of room i of one of the given types
RoomTiles(i, types) ==
    {q \in Grid : containsPoint(rooms[i], q[1], q[2]) /\ tiles[q].type \in types}

FloorOrDoor == {q \in Grid : tiles[q].type \in {"floor", "door"}}

\* C2 (connectivity): in the grid generateDungeon leaves, every room is reached
\* from every other room by steps north, east, south and west over tiles of
\* type floor or door, locked or not.
C2_Connectivity ==
    (Done /\ Len(rooms) > 0) =>
        \A i \in 1..Len(rooms) :
            Flood(RoomTiles(1, {"floor", "door"}), FloorOrDoor)
                \cap RoomTiles(i, {"floor", "door"}) # {}

\* what is compared of an aggregate's output o: room rectangles, tile
\* types, the attributes of door tiles and of registered doors, chests and
\* creatures, the keys lying on floor tiles, player start and stairs
View(o) ==
    [rooms |-> [i \in 1..Len(o.rooms) |->
                  <<o.rooms[i].x, o.rooms[i].y, o.rooms[i].width, o.rooms[i].height>>],
     types |-> [q \in DOMAIN o.tiles |-> o.tiles[q].type],
     doorTiles |-> [q \in {d \in DOMAIN o.tiles : o.tiles[d].type = "door"} |->
                      <<o.tiles[q].locked, o.tiles[q].trapped, o.tiles[q].facing>>],
     doors |-> [i \in 1..Len(o.doors) |->
                  <<o.doors[i].x, o.doors[i].y, o.doors[i].locked, o.doors[i].trapped,
                    o.doors[i].facing>>],
     chests |-> [i \in 1..Len(o.chests) |->
                   <<o.chests[i].x, o.chests[i].y, o.chests[i].quality,
                     o.chests[i].locked, o.chests[i].keys>>],
     creatures |-> [i \in 1..Len(o.creatures) |->
                      <<o.creatures[i].x, o.creatures[i].y, o.creatures[i].type,
                        o.creatures[i].keys>>],
     floorKeys |-> {<<q, o.tiles[q].item>> : q \in {d \in DOMAIN o.tiles :
                                                      IsKey(o.tiles[d].item)}},
     playerStart |-> o.playerStart,
     stairs |-> o.stairs,
     pc |-> o.pc]

\* the second aggregate has finished its call, made without argument
SecondFinished == agg = 2 /\ pc \in {"done", "threw"} /\ args = <<Null>>

Occurrences(key, holder) == Cardinality({k \in 1..Len(holder.keys) : holder.keys[k] = key})

RECURSIVE SumOver(_, _, _)
SumOver(holders, key, i) ==
    IF i > Len(holders) THEN 0
    ELSE Occurrences(key, holders[i]) + SumOver(holders, key, i + 1)

KeyCount(key) ==
    Cardinality(KeyOnTiles(key)) + SumOver(creatures, key, 1) + SumOver(chests, key, 1)

\* C4 (one key per lock): after generateDungeon has returned, for every locked
\* door and every locked chest of the grid exactly one key item carries its
\* keyId, on a floor tile or in the loot of a creature or a chest.
C4_ExactlyOneKey ==
    Done => /\ \A p \in LockedDoors : KeyCount(KeyItem("doorKey", p[1], p[2])) = 1
            /\ \A p \in LockedChests : KeyCount(KeyItem("chestKey", p[1], p[2])) = 1

\* C5 (no exception): whatever the width, height and seed, generateDungeon does
\* not throw (and its spanning loop does not spin).
C5_NeverThrows == pc \notin {"threw", "hung"}

\* C6 (pure function of seed and dimensions): after any sequence of
\* generateDungeon calls on an aggregate, the dungeon the last call left equals
\* the one a freshly constructed aggregate of the same dimensions generates
\* from the seed that call returned.
C6_PureFunction ==
    (SecondFinished /\ prev.pc = "done") => View(Output) = View(prev)

\* C7 (registries cleared): after a generateDungeon call that was given a new
\* seed, doors, chests and creatures hold nothing of an earlier call.
C7_RegistriesCleared ==
    (Done /\ args[calls] # Null) =>
        /\ \A i \in 1..Len(doors) : doors[i].run = calls
        /\ \A i \in 1..Len(chests) : chests[i].run = calls
        /\ \A i \in 1..Len(creatures) : creatures[i].run = calls

\* C8 (containment): every room lies inside the border ring.
C8_Containment ==
    \A i \in 1..Len(rooms) :
        /\ borderSize <= rooms[i].x
        /\ rooms[i].x + rooms[i].width <= width - borderSize
        /\ borderSize <= rooms[i].y
        /\ rooms[i].y + rooms[i].height <= height - borderSize

C8_Witness == pc = "placeCorridors" /\ Len(rooms) >= 3

Overlap(a, b) ==
    /\ a.x < b.x + b.width
    /\ b.x < a.x + a.width
    /\ a.y < b.y + b.height
    /\ b.y < a.y + a.height

\* C9 (disjoint rooms): no two distinct rooms overlap.
C9_NoOverlap ==
    \A i, j \in 1..Len(rooms) : i # j => ~Overlap(rooms[i], rooms[j])

C9_Witness == pc = "placeCorridors" /\ calls = 2 /\ Len(rooms) >= 2

\* the outer ring of the grid, borderSize tiles wide
BorderTiles ==
    {q \in DOMAIN tiles : \/ q[1] < borderSize
                          \/ q[1] >= width - borderSize
                          \/ q[2] < borderSize
                          \/ q[2] >= height - borderSize}

\* the positions where something has been placed: rooms, corridors, doors,
\* chests, creatures, keys, player start and stairs
Placed ==
    {q \in DOMAIN tiles : isPartOfRoom(Cur, q[1], q[2])}
    \cup UNION {{<<corridors[i].start.x, corridors[i].start.y>>,
                 <<corridors[i].end.x, corridors[i].end.y>>}
                \cup {corridors[i].path[k] : k \in 1..Len(corridors[i].path)} :
                i \in 1..Len(corridors)}
    \cup {<<doors[i].x, doors[i].y>> : i \in 1..Len(doors)}
    \cup {<<chests[i].x, chests[i].y>> : i \in 1..Len(chests)}
    \cup {<<creatures[i].x, creatures[i].y>> : i \in 1..Len(creatures)}
    \cup {q \in DOMAIN tiles : \/ tiles[q].type \notin {"wall"}
                                \/ tiles[q].item.kind # "none"
                                \/ tiles[q].creature # 0}
    \cup ({playerStart, stairs} \ {NoPosition})

\* C10 (border): in every state, during and after generation, every border
\* tile is a wall and nothing is placed on a border tile.
C10_Border ==
    /\ \A q \in BorderTiles : tiles[q] = WallTile
    /\ Placed \cap BorderTiles = {}

C10_Witness ==
    /\ Done
    /\ Len(corridors) >= 2
    /\ Len(doors) >= 1
    /\ Len(chests) >= 1
    /\ Len(creatures) >= 1
    /\ stairs \in Grid
    /\ \E q \in Grid : IsKey(tiles[q].item)

\* C11 (no double lock): among the locked doors and locked chests for which
\* placeKeys makes keys in one call, no two have the same keyId; in particular
\* a door and a chest never have the same one.
C11_DistinctKeyIds ==
    \A i, j \in 1..Len(keyLog) : i # j => keyLog[i].lock.id # keyLog[j].lock.id

C11_Witness ==
    /\ Done
    /\ \E i, j \in 1..Len(keyLog) :
          /\ i # j
          /\ keyLog[i].lock.kind = "door"
          /\ keyLog[j].lock.kind = "door"
          /\ keyLog[i].lock.y = keyLog[j].lock.y
    /\ \E i \in 1..Len(keyLog) : keyLog[i].lock.kind = "chest"

\* the dungeon has one room, no creature and one chest, which is locked
LoneLockedChest ==
    /\ Len(rooms) = 1
    /\ Len(creatures) = 0
    /\ Len(chests) = 1
    /\ chests[1].locked

\* placeKeys has returned and the next stage has not begun
KeysPlaced == pc = "placePlayerAndStairs"

Routed == pc \notin {"idle", "placeRooms", "placeCorridors", "hung"}

Spanning == {k \in 1..Len(corridors) : ~corridors[k].extra}

\* the rooms marked connected before the k-th corridor is made
ConnectedBefore(k) == {1} \cup {corridors[j].to : j \in 1..(k - 1)}

CenterDistance(a, b) ==
    Abs(getCenter(rooms[a]).x - getCenter(rooms[b]).x)
    + Abs(getCenter(rooms[a]).y - getCenter(rooms[b]).y)

\* C13 (spanning pass): with n >= 1 rooms the spanning pass ends, every room
\* is marked connected, it has made exactly n - 1 corridors, each between
\* the pair of least centre-to-centre Manhattan distance among the pairs with
\* exactly one room connected at that step; with 2 rooms there is exactly one
\* corridor in the end and no extra one.
C13_SpanningPass ==
    /\ pc # "hung"
    /\ (Routed /\ Len(rooms) >= 1) =>
          /\ \A i \in 1..Len(rooms) : rooms[i].connected
          /\ Spanning = 1..(Len(rooms) - 1)
          /\ \A k \in Spanning :
                /\ corridors[k].from \in ConnectedBefore(k)
                /\ corridors[k].to \notin ConnectedBefore(k)
                /\ \A a \in ConnectedBefore(k) :
                      \A b \in (1..Len(rooms)) \ ConnectedBefore(k) :
                         CenterDistance(corridors[k].from, corridors[k].to)
                            <= CenterDistance(a, b)
          /\ Len(rooms) = 2 => Len(corridors) = 1

C13_Witness ==
    /\ Routed
    /\ Len(rooms) >= 6
    /\ Cardinality(Spanning) = Len(rooms) - 1
    /\ \E k \in Spanning : corridors[k].from # 1

IsPrefix(a, b) == Len(a) <= Len(b) /\ a = SubSeq(b, 1, Len(a))

\* the order of the stages as stated: the accessibility graph is built
\* between door placement and the placement of chests
StatedOrder ==
    <<"placeRooms", "placeCorridors", "addCorridorVariety", "placeDoors",
      "buildAccessibilityGraph", "placeChests", "placeCreatures", "placeKeys",
      "placePlayerAndStairs">>

LcgStep(state) ==
    ((((state % 233280) * 9000) % 233280) + (((state % 233280) * 301) % 233280) + 49297)
        % 233280

\* C15 (generator): every call of random() takes the state to
\* (state * 9301 + 49297) mod 233280 and returns a value in [0, 1), and
\* every call of randomInt(min, max) with min < max returns an integer r
\* with min <= r < max, whatever integer seed was given.
C15_Generator ==
    /\ drawn.op = "random" =>
          /\ drawn.after = LcgStep(drawn.state)
          /\ 0 <= drawn.value /\ drawn.value < Modulus
    /\ drawn.op = "randomInt" =>
          /\ drawn.after = LcgStep(drawn.state)
          /\ drawn.min <= drawn.value /\ drawn.value < drawn.max

Loops == {k \in 1..Len(corridors) : corridors[k].extra}

\* the pairs of rooms a < b that no corridor of the spanning pass joins
Unjoined ==
    {p \in (1..Len(rooms)) \X (1..Len(rooms)) :
        /\ p[1] < p[2]
        /\ \A k \in Spanning : {corridors[k].from, corridors[k].to} # {p[1], p[2]}}

\* C16 (extra loops): after the spanning pass, extra corridors are made only
\* between two connected rooms that no spanning corridor joins, their number
\* is min(max(1, floor(n / 10)), number of pairs without a spanning
\* corridor), and the corridors number n - 1 plus that in the end.
C16_ExtraLoops ==
    (Routed /\ Len(rooms) >= 1) =>
        /\ \A k \in Loops :
              /\ k > Len(rooms) - 1
              /\ corridors[k].from # corridors[k].to
              /\ rooms[corridors[k].from].connected
              /\ rooms[corridors[k].to].connected
              /\ \E p \in Unjoined : {corridors[k].from, corridors[k].to} = {p[1], p[2]}
        /\ Cardinality(Loops) = Min(Max(1, Len(rooms) \div 10), Cardinality(Unjoined))
        /\ Len(corridors) = (Len(rooms) - 1) + Cardinality(Loops)

C16_Witness ==
    /\ Routed
    /\ Len(rooms) >= 5
    /\ Cardinality(Unjoined) >= 6
    /\ Cardinality(Loops) = 1

\* the corridors carved by an accepted attempt whose first run had a
\* corridor floor tile strictly inside it
Crossing ==
    {k \in 1..Len(corridors) :
        corridors[k].met.crossed /\ corridors[k].met.merge # NoPosition}

AsPoint(p) == [x |-> p[1], y |-> p[2]]

\* the tiles of lines 812-827 (and 897-912): the first run up to the merge
\* point, then findAndCarvePath from it to the end, whose draw chooses
\* between horizontal-vertical and vertical-horizontal
MergedPath(c) ==
    (IF c.carved = "hv"
     THEN HorizontalRun(c.start.x, c.met.merge[1], c.start.y)
     ELSE VerticalRun(c.start.x, c.start.y, c.met.merge[2]))
    \o (IF GtHalf(Random(c.met.rng))
        THEN PathHV(AsPoint(c.met.merge), c.end)
        ELSE PathVH(AsPoint(c.met.merge), c.end))

FullPath(c) == IF c.carved = "vh" THEN PathVH(c.start, c.end) ELSE PathHV(c.start, c.end)

Open(path) == \A k \in 1..Len(path) : path[k] \in Grid /\ tiles[path[k]].type # "wall"

Connects(T, c, a, b) ==
    LET P == FullPath(c) \o <<<<c.end.x, c.end.y>>>>
    IN /\ P[1] = <<c.start.x, c.start.y>>
       /\ containsPoint(rooms[a], c.start.x, c.start.y)
       /\ containsPoint(rooms[b], c.end.x, c.end.y)
       /\ \A k \in 1..Len(P) : P[k] \in DOMAIN T /\ T[P[k]].type = "floor"
       /\ \A k \in 1..(Len(P) - 1) :
             Abs(P[k + 1][1] - P[k][1]) + Abs(P[k + 1][2] - P[k][2]) = 1

\* C18 (createCorridor): for every pair of rooms made by placeRooms,
\* createCorridor returns a corridor (the direct L-path if the three
\* attempts are rejected), and the tiles carved are a 4-connected floor path
\* from a tile of roomA to a tile of roomB; so are those of every corridor
\* placeCorridors has made.
C18_CorridorCarved ==
    /\ pc = "placeCorridors" =>
          \A a, b \in 1..Len(rooms) :
             LET Made(cc) == cc.ok /\ Connects(cc.D.tiles, cc.corridor, a, b)
             IN a # b => Made(createCorridor(Cur, a, b))
    /\ pc = "addCorridorVariety" =>
          \A k \in 1..Len(corridors) :
             Connects(tiles, corridors[k], corridors[k].from, corridors[k].to)

C18_Witness ==
    /\ pc = "addCorridorVariety"
    /\ \E k \in 1..Len(corridors) : corridors[k].carved = "direct"
    /\ Len(corridors) >= 3
    /\ \A k \in 1..Len(corridors) :
          Connects(tiles, corridors[k], corridors[k].from, corridors[k].to)

\* C19 (corridor registry): after placeCorridors every point of
\* corridor.path is a non-wall tile of the grid, and the path is the
\* L-shaped sequence from corridor.start to corridor.end in the orientation
\* that was carved for the corridor.
C19_PathCarved ==
    Routed =>
        \A k \in 1..Len(corridors) :
           /\ Open(corridors[k].path)
           /\ corridors[k].path[1] = <<corridors[k].start.x, corridors[k].start.y>>
           /\ corridors[k].path[Len(corridors[k].path)]
                 = <<corridors[k].end.x, corridors[k].end.y>>
           /\ \A i \in 1..Len(FullPath(corridors[k])) :
                 \E j \in 1..Len(corridors[k].path) :
                    corridors[k].path[j] = FullPath(corridors[k])[i]

\* the floor tiles outside every room, when the grid is filled
CorridorTiles ==
    IF DOMAIN tiles = Grid
    THEN {p \in Grid : /\ isValidPosition(width, height, p[1], p[2])
                       /\ tiles[p].type = "floor"
                       /\ \A i \in 1..Len(rooms) : ~containsPoint(rooms[i], p[1], p[2])}
    ELSE {}

InRoom(q, i) == containsPoint(rooms[i], q[1], q[2])

\* the cardinal neighbours of p that are floor tiles inside a room
RoomNeighbours(p) ==
    {q \in Grid : /\ Abs(q[1] - p[1]) + Abs(q[2] - p[2]) = 1
                  /\ isValidPosition(width, height, q[1], q[2])
                  /\ tiles[q].type = "floor"
                  /\ \E i \in 1..Len(rooms) : InRoom(q, i)}

\* p is within 1 tile of a corner of room i along the wall that neighbour q
\* of p lies behind
NearCorner(p, q, i) ==
    IF q[1] = p[1]
    THEN p[1] <= rooms[i].x + 1 \/ p[1] >= rooms[i].x + rooms[i].width - 2
    ELSE p[2] <= rooms[i].y + 1 \/ p[2] >= rooms[i].y + rooms[i].height - 2

\* the conditions on p, with the set of tile types allowed on the side
\* opposite to the room
DoorCandidate(p, types) ==
    /\ Cardinality(RoomNeighbours(p)) = 1
    /\ \A q \in RoomNeighbours(p) :
          /\ <<2 * p[1] - q[1], 2 * p[2] - q[2]>> \in Grid
          /\ isValidPosition(width, height, 2 * p[1] - q[1], 2 * p[2] - q[2])
          /\ tiles[<<2 * p[1] - q[1], 2 * p[2] - q[2]>>].type \in types
          /\ \A i \in 1..Len(rooms) : ~InRoom(<<2 * p[1] - q[1], 2 * p[2] - q[2]>>, i)
          /\ \A i \in 1..Len(rooms) :
                (InRoom(q, i) /\ \A j \in 1..(i - 1) : ~InRoom(q, j)) => ~NearCorner(p, q, i)

TileTypes == {"floor", "wall", "door", "pillar", "stairs"}

\* C20 as stated: on a floor tile outside every room, checkDoorPosition
\* returns isValid = true exactly when one cardinal neighbour is a floor tile
\* inside a room, the tile on the opposite side is floor and not part of a
\* room, and the tile is not within 1 tile of that room's corner.
C20_OppositeFloor ==
    \A p \in CorridorTiles :
       checkDoorPosition(Cur, p[1], p[2]).isValid <=> DoorCandidate(p, {"floor"})

\* C20 (amended): the same with the tile on the opposite side being any
\* tile but a wall (floor, pillar, door or stairs) and not part of a room.
C20_OppositeNotWall ==
    \A p \in CorridorTiles :
       checkDoorPosition(Cur, p[1], p[2]).isValid
          <=> DoorCandidate(p, TileTypes \ {"wall"})

C20_Witness ==
    /\ pc = "placeChests"
    /\ \E p \in CorridorTiles :
          /\ checkDoorPosition(Cur, p[1], p[2]).isValid
          /\ DoorCandidate(p, {"door"})
    /\ \E p \in CorridorTiles :
          /\ Cardinality(RoomNeighbours(p)) = 1
          /\ ~checkDoorPosition(Cur, p[1], p[2]).isValid

----------------------------------------------------------------------------
(* C21: doors and their neighbours *)

\* the tiles that hold a door
DoorTiles == {p \in Grid : tiles[p].type = "door"}

\* within 1 tile of each other, diagonals included
NextTo(p, q) == Abs(p[1] - q[1]) <= 1 /\ Abs(p[2] - q[2]) <= 1

\* C21: no two placed doors are within 1 tile of each other (diagonals
\* included), because candidates that close share a group and a group gets at
\* most one door
C21_DoorsApart ==
    pc # "idle" => \A p \in DoorTiles : \A q \in DoorTiles : p # q => ~NextTo(p, q)

----------------------------------------------------------------------------
(* C22: the accessibility graph and the corridors behind unlocked doors *)

\* placeDoors has returned
DoorsPlaced == pc \notin {"idle", "placeRooms", "placeCorridors", "addCorridorVariety",
                          "placeDoors", "hung", "threw"}

UnlockedDoors == {p \in Grid : tiles[p].type = "door" /\ ~tiles[p].locked}

\* the tiles outside the rooms one can walk on without opening a locked door
Passage == {q \in Walkable : ~isPartOfRoom(Cur, q[1], q[2]) /\ q \notin LockedDoors}

\* the rooms the corridor behind the door at p leads to: those with a floor
\* tile next to a tile reached from p through the passage
LeadsTo(p) ==
    {b \in 1..Len(rooms) : Expand(Flood({p}, Passage), Grid) \cap RoomTiles(b, {"floor"}) # {}}

\* C22: once the doors are placed, whenever an unlocked door of room A opens
\* onto a corridor that leads to another room B, the accessibility graph
\* holds B as a neighbour of A and A as a neighbour of B
C22_GraphEdges ==
    DoorsPlaced =>
        \A p \in UnlockedDoors :
            \A b \in LeadsTo(p) \ {tiles[p].room} :
                /\ InSeq(b, buildAccessibilityGraph(Cur)[tiles[p].room])
                /\ InSeq(tiles[p].room, buildAccessibilityGraph(Cur)[b])

----------------------------------------------------------------------------
(* C23: the breadth-first search returns the reachable rooms *)

\* the walks of the graph from start: sequences of up to Len(graph) nodes that
\* begin at start and follow an edge at every step
Walks(graph, start) ==
    {w \in UNION {[1..k -> 1..Len(graph)] : k \in 1..Len(graph)} :
        /\ w[1] = start
        /\ \A k \in 1..(Len(w) - 1) : InSeq(w[k + 1], graph[w[k]])}

\* the nodes reached from start along edges, start included
Reachable(graph, start) == {w[Len(w)] : w \in Walks(graph, start)}

\* C23: for every graph over room indices (duplicate edges and self-edges
\* allowed) and every start that is a node, findAccessibleRooms returns exactly
\* the nodes reachable from start along edges, start included, each of them
\* once, and the graph is as it was
C23_BreadthFirst ==
    drawn.op = "findAccessibleRooms" =>
        /\ {drawn.value[k] : k \in 1..Len(drawn.value)} = Reachable(drawn.graph, drawn.start)
        /\ \A j, k \in 1..Len(drawn.value) : drawn.value[j] = drawn.value[k] => j = k
        /\ drawn.after = drawn.graph

\* a search over duplicate edges and a self-edge that reaches a room two
\* steps away which is no neighbour of the start
C23_Witness ==
    /\ drawn.op = "findAccessibleRooms"
    /\ drawn.start = 1
    /\ drawn.graph = <<(<<1, 1, 2, 2>>), (<<3, 3>>), (<<>>)>>
    /\ drawn.value = <<1, 2, 3>>

----------------------------------------------------------------------------
(* C24: a key and the room of its lock *)

\* the first generateDungeon call of an aggregate has placed the keys
FirstKeysPlaced == calls = 1 /\ pc \in {"placePlayerAndStairs", "done"}

\* the room of the holder or floor tile at q
RoomAt(q) == getRoomForPosition(Cur, q[1], q[2])

\* C24: the key of a locked door is never placed in the door's own room, and
\* the key of a locked chest that stands in a room is never placed in the
\* chest's own room
C24_KeyOutsideOwnRoom ==
    FirstKeysPlaced =>
        /\ \A p \in LockedDoors :
              \A q \in KeyLocations(KeyItem("doorKey", p[1], p[2])) :
                  tiles[p].room # 0 => RoomAt(q) # tiles[p].room
        /\ \A p \in LockedChests :
              \A q \in KeyLocations(KeyItem("chestKey", p[1], p[2])) :
                  RoomAt(p) # 0 => RoomAt(q) # RoomAt(p)

----------------------------------------------------------------------------
(* C25: the order of the strategies of placeKeyInAccessibleLocation, read off
   the calls placeKeys is about to make *)

Locks == LockedObjects(Cur)

KeyOf(lock) == KeyItem(IF lock.kind = "door" THEN "doorKey" ELSE "chestKey", lock.x, lock.y)

\* the dungeon when placeKeys calls placeKeyInAccessibleLocation for its k-th lock
BeforeKey(k) == KeyLoop(Cur, SubSeq(Locks, 1, k - 1), buildAccessibilityGraph(Cur), 1)

\* what that call returns
KeyCall(k) ==
    placeKeyInAccessibleLocation(BeforeKey(k), KeyOf(Locks[k]), Locks[k],
                                 buildAccessibilityGraph(Cur), Locks[k].kind = "door")

\* the rooms a key may go to: for a door those the search reaches from the
\* door's room, for a chest all rooms, in both cases without the lock's room;
\* the start room when none is left
ReachableRooms(D, lock) ==
    LET found == IF lock.kind = "door"
                 THEN {i \in 1..Len(D.rooms) :
                         InSeq(i, findAccessibleRooms(lock.room, buildAccessibilityGraph(D)))}
                      \ {lock.room}
                 ELSE (1..Len(D.rooms)) \ {lock.room}
    IN IF found = {} THEN {findBestStartRoom(D)} ELSE found

\* the reachable rooms without a key, or all of them when each has a key
KeyFreeRooms(D, lock) ==
    IF ReachableRooms(D, lock) \ getRoomsWithKeys(D) # {}
    THEN ReachableRooms(D, lock) \ getRoomsWithKeys(D)
    ELSE ReachableRooms(D, lock)

KeylessCreatures(D, R) ==
    {c \in 1..Len(D.creatures) :
        ~HasKey(D.creatures[c])
        /\ getRoomForPosition(D, D.creatures[c].x, D.creatures[c].y) \in R}

OpenChests(D, R) ==
    {c \in 1..Len(D.chests) :
        /\ ~HasKey(D.chests[c])
        /\ ~D.chests[c].locked
        /\ getRoomForPosition(D, D.chests[c].x, D.chests[c].y) \in R}

\* who holds more after the call than before
NewCreatureKeys(D0, D1) ==
    {c \in 1..Len(D0.creatures) : D1.creatures[c].keys # D0.creatures[c].keys}
NewChestKeys(D0, D1) == {c \in 1..Len(D0.chests) : D1.chests[c].keys # D0.chests[c].keys}
NewTileKeys(D0, D1) ==
    {q \in Positions(D0.width, D0.height) : D1.tiles[q].item # D0.tiles[q].item}

\* the order of the strategies for a call on D0 that returned res, R being the
\* rooms whose creatures and chests may hold the key
KeyOrder(D0, res, R) ==
    /\ KeylessCreatures(D0, R) # {} =>
          /\ res.ok
          /\ Cardinality(NewCreatureKeys(D0, res.D)) = 1
          /\ NewCreatureKeys(D0, res.D) \subseteq KeylessCreatures(D0, R)
          /\ NewChestKeys(D0, res.D) = {} /\ NewTileKeys(D0, res.D) = {}
    /\ (KeylessCreatures(D0, R) = {} /\ OpenChests(D0, R) # {}) =>
          /\ res.ok
          /\ Cardinality(NewChestKeys(D0, res.D)) = 1
          /\ NewChestKeys(D0, res.D) \subseteq OpenChests(D0, R)
          /\ NewCreatureKeys(D0, res.D) = {} /\ NewTileKeys(D0, res.D) = {}
    /\ (KeylessCreatures(D0, R) = {} /\ OpenChests(D0, R) = {} /\ res.ok) =>
          /\ Cardinality(NewCreatureKeys(D0, res.D)) + Cardinality(NewChestKeys(D0, res.D))
                + Cardinality(NewTileKeys(D0, res.D)) = 1
          /\ \A q \in NewTileKeys(D0, res.D) : FreeFloor(D0, q[1], q[2])
    /\ ~res.ok =>
          /\ NewCreatureKeys(D0, res.D) = {}
          /\ NewChestKeys(D0, res.D) = {}
          /\ NewTileKeys(D0, res.D) = {}

----------------------------------------------------------------------------
(* C26: the creatures placeCreatures places *)

\* the least integer not below a / b, for b > 0
Ceil(a, b) == (a + b - 1) \div b

\* the registry entries standing in room i, and those standing in no room
CreaturesInRoom(i) ==
    {c \in 1..Len(creatures) : containsPoint(rooms[i], creatures[c].x, creatures[c].y)}

CreaturesInCorridors ==
    {c \in 1..Len(creatures) : ~isPartOfRoom(Cur, creatures[c].x, creatures[c].y)}

\* C26: when placeCreatures has returned, ceil(1.5 * n) creatures are placed
\* for n rooms; each room holds ceil(0.7 * total / n) of them, on distinct
\* floor tiles of the room, and the remaining ones stand on floor tiles
\* outside every room
C26_CreatureBudget ==
    (pc = "placeKeys" /\ Len(rooms) > 0) =>
        /\ Len(creatures) = Ceil(3 * Len(rooms), 2)
        /\ \A i \in 1..Len(rooms) :
              Cardinality(CreaturesInRoom(i))
                  = Ceil(7 * Ceil(3 * Len(rooms), 2), 10 * Len(rooms))
        /\ \A c, e \in 1..Len(creatures) :
              (creatures[c].x = creatures[e].x /\ creatures[c].y = creatures[e].y) => c = e
        /\ \A c \in 1..Len(creatures) : tiles[<<creatures[c].x, creatures[c].y>>].type = "floor"
        /\ Cardinality(CreaturesInCorridors)
              = Ceil(3 * Len(rooms), 2)
                  - Len(rooms) * Ceil(7 * Ceil(3 * Len(rooms), 2), 10 * Len(rooms))

----------------------------------------------------------------------------
(* C27: the room the player starts in *)

StartPlaced == pc = "done" /\ Len(rooms) > 0

\* the rooms that have no door or at least one unlocked door
OpenRooms == {i \in 1..Len(rooms) : ~isLockedRoom(Cur, i)}

\* the rooms whose center is the player's start position
PlayerRooms ==
    {i \in 1..Len(rooms) :
        playerStart = <<getCenter(rooms[i]).x, getCenter(rooms[i]).y>>}

FloorRoot(v) == CHOOSE n \in 0..v : n * n <= v /\ v < (n + 1) * (n + 1)

\* 20 * (area, times 0.2 when all-locked), and the square of 20 * 0.5 * the
\* distance between the room's center and the dungeon's center
Weight(i) == (IF isLockedRoom(Cur, i) THEN 4 ELSE 20) * rooms[i].width * rooms[i].height

Offset(i) ==
    25 * ((width - 2 * rooms[i].x - rooms[i].width) * (width - 2 * rooms[i].x - rooms[i].width)
          + (height - 2 * rooms[i].y - rooms[i].height) * (height - 2 * rooms[i].y - rooms[i].height))

----------------------------------------------------------------------------
(* C29: the registries and the grid *)

\* the first generateDungeon call on the aggregate has returned
FirstDone == pc = "done" /\ calls = 1

\* the positions whose tile refers to a creature, and to a chest
CreatureTiles == {p \in Grid : tiles[p].creature # 0}

ChestTiles == {p \in Grid : tiles[p].item.kind = "chest"}

\* C29: after the first generateDungeon call every creature of the creatures
\* registry and every chest of the chests registry is the one the tile at its
\* position refers to, and every creature and chest a tile refers to is in
\* its registry
C29_RegistriesAgree ==
    FirstDone =>
        /\ \A c \in 1..Len(creatures) :
              tiles[<<creatures[c].x, creatures[c].y>>].creature = creatures[c].id
        /\ \A c \in 1..Len(chests) :
              tiles[<<chests[c].x, chests[c].y>>].item = ChestItem(chests[c].id)
        /\ \A p \in CreatureTiles :
              \E c \in 1..Len(creatures) :
                  creatures[c].id = tiles[p].creature /\ p = <<creatures[c].x, creatures[c].y>>
        /\ \A p \in ChestTiles :
              \E c \in 1..Len(chests) :
                  chests[c].id = tiles[p].item.a /\ p = <<chests[c].x, chests[c].y>>

----------------------------------------------------------------------------
(* C28: the stairs and the player's start position *)

\* C28: when generateDungeon has returned and the dungeon has at least two
\* rooms, the stairs are not at the player's start position
C28_StairsAwayFromStart ==
    (pc = "done" /\ Len(rooms) >= 2) => stairs # playerStart

----------------------------------------------------------------------------
(* C30: the traps of the doors *)

\* C30: every door createDoorAt has created has a trap instance exactly when
\* its trapped flag is true
C30_TrapIffTrapped ==
    \A d \in 1..Len(doors) : doors[d].trap <=> doors[d].trapped

====
